---- MODULE Spec2Model ----
(***************************************************************************)
(* A model of the file-backed task store of jbutlerdev/tasks               *)
(* (internal/storage/filestore.go): the directory tree under the base      *)
(* directory, the JSON codec of the records, the store-wide sync.RWMutex   *)
(* and the store operations, executed by concurrent callers.               *)
(***************************************************************************)
EXTENDS Naturals, Integers, Sequences, FiniteSets, TLC

VARIABLES
    fs,      \* the directory tree under baseDir: path -> node
    clock,   \* the last value time.Now() returned
    wOwner,  \* the caller that holds or has claimed the exclusive lock, 0 if none
    rheld,   \* per caller, the number of shared locks it holds
    pc,      \* per caller, its position in the operation it runs
    call,    \* per caller, the operation it runs (or ran last) and its arguments
    loc,     \* per caller, the local variables of a multi-step operation
    ret,     \* per caller, what its last operation returned
    pre,     \* per caller, the tree as it was when its operation got the lock
    deleted, \* history: the lists DeleteList removed, with no CreateList since
    handler  \* per caller, the request its HTTP handler is serving, if any

vars == <<fs, clock, wOwner, rheld, pc, call, loc, ret, pre, deleted, handler>>

----------------------------------------------------------------------------
(* Bounds of the model *)

NumProcs == 2
\* How often the callers of one run make the store read the clock.
MaxTicks == 2

\* The clock value at which the store is opened.
InitClock == 2

Procs == 1..NumProcs
NoProc == 0

ListIDs == {"A", "B"}
TaskIDs == {"t1", "t2"}

\* os.ReadDir returns the entries sorted by file name.
SortedNames == <<"A", "B", "list.json", "lists", "t1.json", "t2.json", "t3.json", "tasks">>

----------------------------------------------------------------------------
(* PathResolver: filepath.Join cleans the joined path. Paths are sequences *)
(* of components, relative to baseDir.                                     *)

RECURSIVE Clean(_, _)
Clean(parts, acc) ==
    IF parts = <<>> THEN acc
    ELSE LET h == Head(parts) IN
         IF h \in {"", "."} THEN Clean(Tail(parts), acc)
         ELSE IF h = ".."
              THEN IF acc # <<>> /\ acc[Len(acc)] # ".."
                   THEN Clean(Tail(parts), SubSeq(acc, 1, Len(acc) - 1))
                   ELSE Clean(Tail(parts), Append(acc, ".."))
              ELSE Clean(Tail(parts), Append(acc, h))

Join(parts) == Clean(parts, <<>>)

ListsDir == Join(<<"lists">>)
ListDir(id) == Join(<<"lists", id>>)
ListPath(id) == Join(<<"lists", id, "list.json">>)
TasksDir(id) == Join(<<"lists", id, "tasks">>)
TaskPath(listID, taskID) == Join(<<"lists", listID, "tasks", taskID \o ".json">>)

----------------------------------------------------------------------------
(* The file system calls the store makes, on a tree f.                     *)

DirNode == [kind |-> "dir"]
FileNode(data) == [kind |-> "file", data |-> data]
\* What a file holds after a write that failed half way: no JSON document.
Garbage == [garbage |-> TRUE]

Exists(f, path) == path \in DOMAIN f
IsDir(f, path) == Exists(f, path) /\ f[path].kind = "dir"
IsFile(f, path) == Exists(f, path) /\ f[path].kind = "file"

Prefixes(path) == {SubSeq(path, 1, i) : i \in 0..Len(path)}
Parent(path) == SubSeq(path, 1, Len(path) - 1)
IsUnder(path, dir) == Len(path) >= Len(dir) /\ SubSeq(path, 1, Len(dir)) = dir

Put(f, path, node) == [q \in DOMAIN f \cup {path} |-> IF q = path THEN node ELSE f[q]]
Drop(f, gone) == [q \in DOMAIN f \ gone |-> f[q]]

\* An os.Stat that never reports a missing path.
StatAlwaysFinds(f, path) == FALSE

\* os.Stat: err == nil, or an error for which os.IsNotExist holds.
StatNotExist(f, path) == ~Exists(f, path)

\* os.MkdirAll: creates the directory and every missing parent; no error if
\* it exists; fails when a component is a file.
MkdirAll(f, path) ==
    IF \E q \in Prefixes(path) : IsFile(f, q)
    THEN [ok |-> FALSE, fs |-> f]
    ELSE [ok |-> TRUE,
          fs |-> [q \in DOMAIN f \cup Prefixes(path) |->
                    IF q \in DOMAIN f THEN f[q] ELSE DirNode]]

\* A write that fails when the file exists (O_EXCL).
WriteFileExclusive(f, path, data) ==
    IF path # <<>> /\ IsDir(f, Parent(path)) /\ ~Exists(f, path)
    THEN [ok |-> TRUE, fs |-> Put(f, path, FileNode(data))]
    ELSE [ok |-> FALSE, fs |-> f]

\* os.WriteFile: creates or truncates the file and writes data; fails when
\* the parent is no directory or the path is a directory.
WriteFile(f, path, data) ==
    IF path # <<>> /\ IsDir(f, Parent(path)) /\ ~IsDir(f, path)
    THEN [ok |-> TRUE, fs |-> Put(f, path, FileNode(data))]
    ELSE [ok |-> FALSE, fs |-> f]

\* A file the process has no permission to read.
Unreadable(data) == [kind |-> "file", data |-> data, noperm |-> TRUE]

\* os.ReadFile: err is "" on success, "notexist" when os.IsNotExist(err),
\* "io" otherwise (the path is a directory, or permission is denied).
ReadFile(f, path) ==
    IF ~Exists(f, path) THEN [err |-> "notexist", data |-> Garbage]
    ELSE IF IsDir(f, path) THEN [err |-> "io", data |-> Garbage]
    ELSE IF "noperm" \in DOMAIN f[path] THEN [err |-> "io", data |-> Garbage]
    ELSE [err |-> "", data |-> f[path].data]

\* os.Remove: removes a file or an empty directory.
Remove(f, path) ==
    IF Exists(f, path) /\ ~(\E q \in DOMAIN f : q # path /\ IsUnder(q, path))
    THEN [ok |-> TRUE, fs |-> Drop(f, {path})]
    ELSE [ok |-> FALSE, fs |-> f]

\* os.RemoveAll: removes the path and everything beneath it.
RemoveAll(f, path) ==
    [ok |-> TRUE, fs |-> Drop(f, {q \in DOMAIN f : IsUnder(q, path)})]

\* os.ReadDir: the names of the entries of a directory, sorted.
RECURSIVE SortNames(_, _)
SortNames(names, i) ==
    IF i > Len(SortedNames) THEN <<>>
    ELSE (IF SortedNames[i] \in names THEN <<SortedNames[i]>> ELSE <<>>)
         \o SortNames(names, i + 1)

ReadDir(f, path) ==
    SortNames({q[Len(q)] : q \in {r \in DOMAIN f : Len(r) = Len(path) + 1 /\ IsUnder(r, path)}}, 1)

----------------------------------------------------------------------------
(* RecordCodec: json.MarshalIndent and json.Unmarshal of models.TaskList,   *)
(* models.Task and models.Note. A JSON object is a function from the keys   *)
(* that are present to their values; fields tagged omitempty are left out   *)
(* when empty, and a key that is missing decodes to the zero value.         *)

Field(j, k, zero) == IF k \in DOMAIN j THEN j[k] ELSE zero
IsObject(j) == "garbage" \notin DOMAIN j

MarshalList(list) ==
    LET keys == {"id", "name", "created_at", "updated_at"}
                \cup (IF list.description # "" THEN {"description"} ELSE {})
    IN  [k \in keys |-> list[k]]

UnmarshalList(j) ==
    [ok |-> IsObject(j),
     v  |-> [id          |-> Field(j, "id", ""),
             name        |-> Field(j, "name", ""),
             description |-> Field(j, "description", ""),
             created_at  |-> Field(j, "created_at", 0),
             updated_at  |-> Field(j, "updated_at", 0)]]

MarshalNote(note) == [k \in {"id", "content", "created_at", "updated_at"} |-> note[k]]

UnmarshalNote(j) ==
    [id         |-> Field(j, "id", ""),
     content    |-> Field(j, "content", ""),
     created_at |-> Field(j, "created_at", 0),
     updated_at |-> Field(j, "updated_at", 0)]

\* A Task whose notes and sub_tasks are not encoded (tagged json:"-").
MarshalTaskWithoutLists(task) ==
    LET keys == {"id", "title", "list_id", "state", "state_time", "created_at", "updated_at"}
                \cup (IF task.description # "" THEN {"description"} ELSE {})
                \cup (IF task.due_date # <<>> THEN {"due_date"} ELSE {})
    IN  [k \in keys |-> task[k]]

RECURSIVE MarshalTask(_)
MarshalTask(task) ==
    LET keys == {"id", "title", "list_id", "state", "state_time", "created_at", "updated_at"}
                \cup (IF task.description # "" THEN {"description"} ELSE {})
                \cup (IF task.due_date # <<>> THEN {"due_date"} ELSE {})
                \cup (IF Len(task.notes) > 0 THEN {"notes"} ELSE {})
                \cup (IF Len(task.sub_tasks) > 0 THEN {"sub_tasks"} ELSE {})
    IN  [k \in keys |->
            IF k = "notes" THEN [i \in 1..Len(task.notes) |-> MarshalNote(task.notes[i])]
            ELSE IF k = "sub_tasks"
                 THEN [i \in 1..Len(task.sub_tasks) |-> MarshalTask(task.sub_tasks[i])]
                 ELSE task[k]]

RECURSIVE DecodeTask(_)
DecodeTask(j) ==
    [id          |-> Field(j, "id", ""),
     title       |-> Field(j, "title", ""),
     description |-> Field(j, "description", ""),
     list_id     |-> Field(j, "list_id", ""),
     state       |-> Field(j, "state", ""),
     state_time  |-> Field(j, "state_time", 0),
     due_date    |-> Field(j, "due_date", <<>>),
     created_at  |-> Field(j, "created_at", 0),
     updated_at  |-> Field(j, "updated_at", 0),
     notes       |-> IF "notes" \in DOMAIN j
                     THEN [i \in 1..Len(j.notes) |-> UnmarshalNote(j.notes[i])]
                     ELSE <<>>,
     sub_tasks   |-> IF "sub_tasks" \in DOMAIN j
                     THEN [i \in 1..Len(j.sub_tasks) |-> DecodeTask(j.sub_tasks[i])]
                     ELSE <<>>]

UnmarshalTask(j) ==
    [ok |-> IsObject(j), v |-> IF IsObject(j) THEN DecodeTask(j) ELSE DecodeTask(<<>>)]

----------------------------------------------------------------------------
(* The records callers pass to the store.                                  *)

ListA(id) == [id |-> id, name |-> "n1", description |-> "",
              created_at |-> 0, updated_at |-> 0]
ListB(id) == [id |-> id, name |-> "n2", description |-> "d",
              created_at |-> 1, updated_at |-> 1]
ListInputs == {ListA("A"), ListB("B")}

Note1 == [id |-> "n1", content |-> "c", created_at |-> 1, updated_at |-> 1]

TaskA(listID, id) ==
    [id |-> id, title |-> "x", description |-> "", list_id |-> listID,
     state |-> "todo", state_time |-> 0, due_date |-> <<>>,
     created_at |-> 0, updated_at |-> 0, notes |-> <<>>, sub_tasks |-> <<>>]
TaskB(listID, id) ==
    [id |-> id, title |-> "y", description |-> "d", list_id |-> listID,
     state |-> "done", state_time |-> 1, due_date |-> <<2>>,
     created_at |-> 1, updated_at |-> 1, notes |-> <<Note1>>,
     sub_tasks |-> <<TaskA(listID, "s1")>>]
\* CreateTask is called with the first set, UpdateTask with the second.
NewTasks == {TaskA(l, "t1") : l \in ListIDs} \cup {TaskB(l, "t2") : l \in ListIDs}
ChangedTasks == {TaskB(l, "t1") : l \in ListIDs} \cup {TaskA(l, "t2") : l \in ListIDs}

NoRec == [none |-> TRUE]

\* A call of a store operation: its name and arguments.
Call(op, list, task, dest, rec) ==
    [op |-> op, list |-> list, task |-> task, dest |-> dest, rec |-> rec]
NoCall == Call("", "", "", "", NoRec)

ReadOps == {"GetAllLists", "GetList", "GetAllTasks", "GetTasksForList", "GetTask",
            "GetTaskFallback"}
WriteOps == {"CreateList", "UpdateList", "DeleteList", "CreateTask", "UpdateTask",
             "MoveTask", "DeleteTask", "DeleteTaskFallback"}
ClockOps == {"CreateList", "UpdateList", "CreateTask", "UpdateTask", "MoveTask"}
\* How the environment can make a file system call of MoveTask fail: the
\* write before the file is created or after it was truncated, the delete.
WriteFailures == {"none", "write", "write_partial"}
RemoveFailures == {"none", "remove"}

ListCalls ==
    {Call("GetAllLists", "", "", "", NoRec)}
    \cup {Call("GetList", l, "", "", NoRec) : l \in ListIDs}
    \cup {Call("CreateList", r.id, "", "", r) : r \in ListInputs}
    \cup {Call("UpdateList", r.id, "", "", r) : r \in ListInputs}
    \cup {Call("DeleteList", l, "", "", NoRec) : l \in ListIDs}

TaskCalls ==
    {Call("GetAllTasks", "", "", "", NoRec)}
    \cup {Call("GetTasksForList", l, "", "", NoRec) : l \in ListIDs}
    \cup {Call("GetTask", l, t, "", NoRec) : l \in ListIDs, t \in TaskIDs}
    \cup {Call("CreateTask", r.list_id, r.id, "", r) : r \in NewTasks}
    \cup {Call("UpdateTask", r.list_id, r.id, "", r) : r \in ChangedTasks}
    \cup {Call("MoveTask", l, t, d, NoRec) : l \in ListIDs, t \in TaskIDs, d \in ListIDs}
    \cup {Call("DeleteTask", l, t, "", NoRec) : l \in ListIDs, t \in TaskIDs}

FallbackCalls ==
    {Call("GetTaskFallback", l, t, "", NoRec) : l \in ListIDs, t \in TaskIDs}
    \cup {Call("DeleteTaskFallback", l, t, "", NoRec) : l \in ListIDs, t \in TaskIDs}

AllCalls == ListCalls \cup TaskCalls \cup FallbackCalls

\* What a handler keeps while it serves a request: where it is, the
\* request, the clock value when the request came in, the task GetTask
\* returned (update requests), the task it passes to the store and
\* returns, and the status of the response.
Handler(phase, req, start, existing, task, status) ==
    [phase |-> phase, req |-> req, start |-> start, existing |-> existing,
     task |-> task, status |-> status]
NoHandler == Handler("none", NoRec, 0, NoRec, NoRec, 0)

\* What an operation returns: the error kind ("" for nil) and the value.
Result(err, val) == [err |-> err, val |-> val]
NoResult == Result("none", <<>>)

----------------------------------------------------------------------------
(* ConcurrencyGuard: the store's sync.RWMutex. A caller of Lock first      *)
(* claims the lock (new readers are then held back) and waits until the    *)
(* readers that hold it have left; a caller of RLock is admitted at once   *)
(* unless a writer has claimed the lock, and is then woken by its Unlock.  *)

RECURSIVE SumHeld(_, _)
SumHeld(h, n) == IF n = 0 THEN 0 ELSE h[n] + SumHeld(h, n - 1)
Readers == SumHeld(rheld, NumProcs)

\* RLock returns at once.
\* An RLock that is granted although a writer holds or has claimed the lock.
RLockIgnoringWriter == TRUE

CanRLock == wOwner = NoProc
\* Lock returns at once: no other writer, and (second question) no reader.
CanClaim == wOwner = NoProc
\* A Lock that does not wait for the readers that hold the lock.
LockIgnoringReaders(n) == FALSE

MustWaitForReaders(n) == n > 0

\* Unlock, called by p, which returns r: every blocked reader is admitted.
Unlock(p, newfs, r) ==
    /\ fs' = newfs
    /\ wOwner' = NoProc
    /\ rheld' = [q \in Procs |-> IF pc[q] = "rwait" THEN rheld[q] + 1 ELSE rheld[q]]
    /\ pc' = [q \in Procs |-> IF q = p THEN "idle"
                              ELSE IF pc[q] = "rwait" THEN "work" ELSE pc[q]]
    /\ pre' = [q \in Procs |-> IF q # p /\ pc[q] = "rwait" THEN newfs ELSE pre[q]]
    /\ ret' = [ret EXCEPT ![p] = r]

\* RUnlock, called by p, which returns r: the last reader to leave wakes
\* the writer that waits for the readers.
RUnlock(p, r) ==
    LET wakes == /\ wOwner # NoProc
                 /\ pc[wOwner] = "wwait"
                 /\ ~MustWaitForReaders(Readers - 1)
    IN  /\ rheld' = [rheld EXCEPT ![p] = @ - 1]
        /\ pc' = [q \in Procs |-> IF q = p THEN "idle"
                                  ELSE IF q = wOwner /\ wakes THEN "work" ELSE pc[q]]
        /\ pre' = [q \in Procs |-> IF q # p /\ q = wOwner /\ wakes THEN fs ELSE pre[q]]
        /\ ret' = [ret EXCEPT ![p] = r]
        /\ UNCHANGED <<fs, wOwner>>

\* Operation c is called by p: the operation's first statement takes the
\* lock, fs.mutex.Lock() or fs.mutex.RLock().
Enter(p, c) ==
    /\ pc[p] = "idle"
    /\ call' = [call EXCEPT ![p] = c]
    /\ loc' = [loc EXCEPT ![p] = NoRec]
    /\ ret' = [ret EXCEPT ![p] = NoResult]
    /\ pre' = [pre EXCEPT ![p] = fs]
    /\ IF c.op \in WriteOps
       THEN /\ CanClaim
            /\ wOwner' = p
            /\ pc' = [pc EXCEPT ![p] = IF MustWaitForReaders(Readers) THEN "wwait" ELSE "work"]
            /\ UNCHANGED rheld
       ELSE /\ IF CanRLock
               THEN /\ rheld' = [rheld EXCEPT ![p] = @ + 1]
                    /\ pc' = [pc EXCEPT ![p] = "work"]
               ELSE /\ pc' = [pc EXCEPT ![p] = "rwait"]
                    /\ UNCHANGED rheld
            /\ UNCHANGED wOwner
    /\ UNCHANGED fs

\* A client of the store that is not serving a request calls operation c.
Invoke(p, c) ==
    /\ handler[p].phase \in {"none", "done"}
    /\ c.op \in ClockOps =>
         clock + Cardinality({q \in Procs : pc[q] # "idle" /\ call[q].op \in ClockOps})
           < InitClock + MaxTicks
    /\ Enter(p, c)
    /\ UNCHANGED <<clock, deleted, handler>>

----------------------------------------------------------------------------
(* The bodies of the store operations, as functions of the tree f and the  *)
(* arguments: the tree they leave, the error they return, the value they   *)
(* return and whether they read the clock.                                 *)

Out(f, err, val, ticked) == [fs |-> f, err |-> err, val |-> val, ticked |-> ticked]

\* The loop of GetAllLists over the entries of the lists directory.
RECURSIVE ScanLists(_, _)
ScanLists(f, names) ==
    IF names = <<>> THEN <<>>
    ELSE LET name == Head(names)
             rd   == ReadFile(f, Join(<<"lists", name, "list.json">>))
             u    == UnmarshalList(rd.data)
         IN  (IF IsDir(f, Join(<<"lists", name>>)) /\ rd.err = "" /\ u.ok
              THEN <<u.v>> ELSE <<>>)
             \o ScanLists(f, Tail(names))

\* A GetAllLists that fails when a list's metadata cannot be read or
\* decoded.
DoGetAllListsStrict(f) ==
    LET names == ReadDir(f, ListsDir)
        bad   == \E i \in 1..Len(names) :
                    /\ IsDir(f, Join(<<"lists", names[i]>>))
                    /\ \/ ReadFile(f, Join(<<"lists", names[i], "list.json">>)).err # ""
                       \/ ~UnmarshalList(ReadFile(f, Join(<<"lists", names[i], "list.json">>)).data).ok
    IN  IF ~IsDir(f, ListsDir) \/ bad THEN Out(f, "IOError", <<>>, FALSE)
        ELSE Out(f, "", ScanLists(f, names), FALSE)

DoGetAllLists(f) ==
    IF ~IsDir(f, ListsDir) THEN Out(f, "IOError", <<>>, FALSE)
    ELSE Out(f, "", ScanLists(f, ReadDir(f, ListsDir)), FALSE)

DoGetList(f, id) ==
    LET rd == ReadFile(f, ListPath(id))
        u  == UnmarshalList(rd.data)
    IN  IF rd.err = "notexist" THEN Out(f, "NotFound", <<>>, FALSE)
        ELSE IF rd.err # "" THEN Out(f, "IOError", <<>>, FALSE)
        ELSE IF ~u.ok THEN Out(f, "DecodeError", <<>>, FALSE)
        ELSE Out(f, "", <<u.v>>, FALSE)

\* A CreateList that empties an existing directory of the list first.
DoCreateListFromScratch(f, list, now) ==
    LET l1 == [list EXCEPT !.created_at = now, !.updated_at = now]
        e  == RemoveAll(f, ListDir(list.id))
        d  == MkdirAll(e.fs, ListDir(list.id))
        w  == WriteFile(d.fs, ListPath(list.id), MarshalList(l1))
        t  == MkdirAll(w.fs, TasksDir(list.id))
    IN  IF ~d.ok THEN Out(f, "IOError", <<l1>>, TRUE)
        ELSE IF ~w.ok THEN Out(d.fs, "IOError", <<l1>>, TRUE)
        ELSE IF ~t.ok THEN Out(w.fs, "IOError", <<l1>>, TRUE)
        ELSE Out(t.fs, "", <<l1>>, TRUE)

DoCreateList(f, list, now) ==
    LET l1 == [list EXCEPT !.created_at = now, !.updated_at = now]
        d  == MkdirAll(f, ListDir(list.id))
        w  == WriteFile(d.fs, ListPath(list.id), MarshalList(l1))
        t  == MkdirAll(w.fs, TasksDir(list.id))
    IN  IF ~d.ok THEN Out(f, "IOError", <<l1>>, TRUE)
        ELSE IF ~w.ok THEN Out(d.fs, "IOError", <<l1>>, TRUE)
        ELSE IF ~t.ok THEN Out(w.fs, "IOError", <<l1>>, TRUE)
        ELSE Out(t.fs, "", <<l1>>, TRUE)

DoUpdateList(f, list, now) ==
    LET l1 == [list EXCEPT !.updated_at = now]
        w  == WriteFile(f, ListPath(list.id), MarshalList(l1))
    IN  IF StatNotExist(f, ListDir(list.id)) THEN Out(f, "NotFound", <<list>>, FALSE)
        ELSE IF ~w.ok THEN Out(f, "IOError", <<l1>>, TRUE)
        ELSE Out(w.fs, "", <<l1>>, TRUE)

\* A DeleteList that removes the lists directory's every entry.
DoDeleteListRemovingAll(f, id) ==
    LET r == RemoveAll(f, ListsDir)
        m == MkdirAll(r.fs, ListsDir)
    IN  IF StatNotExist(f, ListDir(id)) THEN Out(f, "NotFound", <<>>, FALSE)
        ELSE IF ~r.ok \/ ~m.ok THEN Out(f, "IOError", <<>>, FALSE)
        ELSE Out(m.fs, "", <<>>, FALSE)

DoDeleteList(f, id) ==
    LET r == RemoveAll(f, ListDir(id))
    IN  IF StatNotExist(f, ListDir(id)) THEN Out(f, "NotFound", <<>>, FALSE)
        ELSE IF ~r.ok THEN Out(f, "IOError", <<>>, FALSE)
        ELSE Out(r.fs, "", <<>>, FALSE)

\* filepath.Ext(name) == ".json"
HasJsonExt(name) == name \in {"list.json", "t1.json", "t2.json", "t3.json", "s1.json"}

\* The loop of getTasksForList over the entries of the tasks directory.
RECURSIVE ScanTasks(_, _, _)
ScanTasks(f, dir, names) ==
    IF names = <<>> THEN <<>>
    ELSE LET name == Head(names)
             rd   == ReadFile(f, Join(dir \o <<name>>))
             u    == UnmarshalTask(rd.data)
         IN  (IF ~IsDir(f, Join(dir \o <<name>>)) /\ HasJsonExt(name) /\ rd.err = "" /\ u.ok
              THEN <<u.v>> ELSE <<>>)
             \o ScanTasks(f, dir, Tail(names))

\* A getTasksForList that fails on the first entry it cannot read or
\* decode.
getTasksForListStrict(f, listID) ==
    LET names == ReadDir(f, TasksDir(listID))
        bad   == \E i \in 1..Len(names) :
                    /\ ~IsDir(f, Join(TasksDir(listID) \o <<names[i]>>))
                    /\ HasJsonExt(names[i])
                    /\ \/ ReadFile(f, Join(TasksDir(listID) \o <<names[i]>>)).err # ""
                       \/ ~UnmarshalTask(ReadFile(f, Join(TasksDir(listID) \o <<names[i]>>)).data).ok
    IN  IF StatNotExist(f, TasksDir(listID)) THEN Out(f, "NotFound", <<>>, FALSE)
        ELSE IF ~IsDir(f, TasksDir(listID)) THEN Out(f, "IOError", <<>>, FALSE)
        ELSE IF bad THEN Out(f, "DecodeError", <<>>, FALSE)
        ELSE Out(f, "", ScanTasks(f, TasksDir(listID), names), FALSE)

getTasksForList(f, listID) ==
    IF StatNotExist(f, TasksDir(listID)) THEN Out(f, "NotFound", <<>>, FALSE)
    ELSE IF ~IsDir(f, TasksDir(listID)) THEN Out(f, "IOError", <<>>, FALSE)
    ELSE Out(f, "", ScanTasks(f, TasksDir(listID), ReadDir(f, TasksDir(listID))), FALSE)

\* A round of GetAllTasks' loop that keeps only the first task of a list.
FirstTaskOrNone(f, list) ==
    LET r == getTasksForList(f, list.id)
    IN  IF r.err = "" /\ r.val # <<>> THEN <<Head(r.val)>> ELSE <<>>

\* What one round of GetAllTasks' loop adds: the tasks of the list, or
\* nothing when its scan fails.
TasksOrNone(f, list) ==
    LET r == getTasksForList(f, list.id) IN IF r.err = "" THEN r.val ELSE <<>>

\* GetAllTasks run in one piece on the tree f.
RECURSIVE CollectTasks(_, _)
CollectTasks(f, lists) ==
    IF lists = <<>> THEN <<>>
    ELSE TasksOrNone(f, Head(lists)) \o CollectTasks(f, Tail(lists))

DoGetAllTasks(f) ==
    LET ls == DoGetAllLists(f)
    IN  IF ls.err # "" THEN ls ELSE Out(f, "", CollectTasks(f, ls.val), FALSE)

DoGetTask(f, listID, taskID) ==
    LET rd == ReadFile(f, TaskPath(listID, taskID))
        u  == UnmarshalTask(rd.data)
    IN  IF rd.err = "notexist" THEN Out(f, "NotFound", <<>>, FALSE)
        ELSE IF rd.err # "" THEN Out(f, "IOError", <<>>, FALSE)
        ELSE IF ~u.ok THEN Out(f, "DecodeError", <<>>, FALSE)
        ELSE Out(f, "", <<u.v>>, FALSE)

\* A task file named without the task's id.
TaskFileSharedName(task) == TaskPath(task.list_id, "t1")

\* The file CreateTask and UpdateTask write.
TaskFile(task) == TaskPath(task.list_id, task.id)

\* A CreateTask that does not check that the list's directory exists.
DoCreateTaskUncheckedList(f, task, now) ==
    LET d  == MkdirAll(f, TasksDir(task.list_id))
        t1 == [task EXCEPT !.created_at = now, !.updated_at = now,
                           !.state_time = IF task.state_time = 0 THEN now ELSE @]
        w  == WriteFile(d.fs, TaskFile(task), MarshalTask(t1))
    IN  IF ~d.ok THEN Out(f, "IOError", <<task>>, FALSE)
        ELSE IF ~w.ok THEN Out(d.fs, "IOError", <<t1>>, TRUE)
        ELSE Out(w.fs, "", <<t1>>, TRUE)

DoCreateTask(f, task, now) ==
    LET d  == MkdirAll(f, TasksDir(task.list_id))
        t1 == [task EXCEPT !.created_at = now, !.updated_at = now,
                           !.state_time = IF task.state_time = 0 THEN now ELSE @]
        w  == WriteFile(d.fs, TaskFile(task), MarshalTask(t1))
    IN  IF StatNotExist(f, ListDir(task.list_id)) THEN Out(f, "NotFound", <<task>>, FALSE)
        ELSE IF ~d.ok THEN Out(f, "IOError", <<task>>, FALSE)
        ELSE IF ~w.ok THEN Out(d.fs, "IOError", <<t1>>, TRUE)
        ELSE Out(w.fs, "", <<t1>>, TRUE)

\* An UpdateTask that writes the caller's updated_at.
DoUpdateTaskKeepingUpdatedAt(f, task, now) ==
    LET d  == MkdirAll(f, TasksDir(task.list_id))
        w  == WriteFile(d.fs, TaskFile(task), MarshalTask(task))
    IN  IF StatNotExist(f, ListDir(task.list_id)) THEN Out(f, "NotFound", <<task>>, FALSE)
        ELSE IF ~d.ok THEN Out(f, "IOError", <<task>>, FALSE)
        ELSE IF ~w.ok THEN Out(d.fs, "IOError", <<task>>, TRUE)
        ELSE Out(w.fs, "", <<task>>, TRUE)

DoUpdateTask(f, task, now) ==
    LET d  == MkdirAll(f, TasksDir(task.list_id))
        t1 == [task EXCEPT !.updated_at = now]
        w  == WriteFile(d.fs, TaskFile(task), MarshalTask(t1))
    IN  IF StatNotExist(f, ListDir(task.list_id)) THEN Out(f, "NotFound", <<task>>, FALSE)
        ELSE IF ~d.ok THEN Out(f, "IOError", <<task>>, FALSE)
        ELSE IF ~w.ok THEN Out(d.fs, "IOError", <<t1>>, TRUE)
        ELSE Out(w.fs, "", <<t1>>, TRUE)

DoDeleteTask(f, listID, taskID) ==
    LET r == Remove(f, TaskPath(listID, taskID))
    IN  IF StatNotExist(f, TaskPath(listID, taskID)) THEN Out(f, "NotFound", <<>>, FALSE)
        ELSE IF ~r.ok THEN Out(f, "IOError", <<>>, FALSE)
        ELSE Out(r.fs, "", <<>>, FALSE)

\* A MoveTask that does not check that the destination list exists.
MoveTaskReadUncheckedDest(f, originalListID, taskID, newListID, now) ==
    LET d  == MkdirAll(f, TasksDir(originalListID))
        rd == ReadFile(d.fs, TaskPath(originalListID, taskID))
        u  == UnmarshalTask(rd.data)
        t1 == [u.v EXCEPT !.list_id = newListID, !.updated_at = now]
        n  == MkdirAll(d.fs, TasksDir(newListID))
    IN  IF ~d.ok THEN Out(f, "IOError", <<>>, FALSE)
        ELSE IF rd.err = "notexist" THEN Out(d.fs, "NotFound", <<>>, FALSE)
        ELSE IF rd.err # "" THEN Out(d.fs, "IOError", <<>>, FALSE)
        ELSE IF ~u.ok THEN Out(d.fs, "DecodeError", <<>>, FALSE)
        ELSE IF ~n.ok THEN Out(d.fs, "IOError", <<>>, TRUE)
        ELSE Out(n.fs, "", <<t1>>, TRUE)

\* MoveTask up to its write: the source's tasks directory is ensured, the
\* record is read, list_id and updated_at are set, the destination is
\* checked and its tasks directory ensured. val is the record to write.
DoMoveTaskRead(f, originalListID, taskID, newListID, now) ==
    LET d  == MkdirAll(f, TasksDir(originalListID))
        rd == ReadFile(d.fs, TaskPath(originalListID, taskID))
        u  == UnmarshalTask(rd.data)
        t1 == [u.v EXCEPT !.list_id = newListID, !.updated_at = now]
        n  == MkdirAll(d.fs, TasksDir(newListID))
    IN  IF ~d.ok THEN Out(f, "IOError", <<>>, FALSE)
        ELSE IF rd.err = "notexist" THEN Out(d.fs, "NotFound", <<>>, FALSE)
        ELSE IF rd.err # "" THEN Out(d.fs, "IOError", <<>>, FALSE)
        ELSE IF ~u.ok THEN Out(d.fs, "DecodeError", <<>>, FALSE)
        ELSE IF StatNotExist(d.fs, ListDir(newListID)) THEN Out(d.fs, "NotFound", <<>>, TRUE)
        ELSE IF ~n.ok THEN Out(d.fs, "IOError", <<>>, TRUE)
        ELSE Out(n.fs, "", <<t1>>, TRUE)

\* A MoveTask that does not check the error of its write.
MoveTaskWriteUnchecked(f, taskID, newListID, task, fail) ==
    LET w == WriteFile(f, TaskPath(newListID, taskID), MarshalTask(task))
    IN  IF fail = "write" THEN Out(f, "", <<task>>, FALSE)
        ELSE IF fail = "write_partial"
             THEN Out(Put(f, TaskPath(newListID, taskID), FileNode(Garbage)), "", <<task>>, FALSE)
        ELSE IF ~w.ok THEN Out(f, "", <<task>>, FALSE)
        ELSE Out(w.fs, "", <<task>>, FALSE)

\* os.WriteFile of MoveTask, with the failure the environment injects.
DoMoveTaskWrite(f, taskID, newListID, task, fail) ==
    LET w == WriteFile(f, TaskPath(newListID, taskID), MarshalTask(task))
    IN  IF fail = "write" THEN Out(f, "IOError", <<>>, FALSE)
        ELSE IF fail = "write_partial"
             THEN Out(Put(f, TaskPath(newListID, taskID), FileNode(Garbage)), "IOError", <<>>, FALSE)
        ELSE IF ~w.ok THEN Out(f, "IOError", <<>>, FALSE)
        ELSE Out(w.fs, "", <<task>>, FALSE)

\* os.Remove of MoveTask, with the failure the environment injects.
DoMoveTaskRemove(f, originalListID, taskID, task, fail) ==
    LET r == Remove(f, TaskPath(originalListID, taskID))
    IN  IF fail = "remove" \/ ~r.ok THEN Out(f, "IOError", <<>>, FALSE)
        ELSE Out(r.fs, "", <<task>>, FALSE)

\* The second variant of the store (GetTask and DeleteTask that fall back
\* on a search of every list): the first list, in the order GetAllLists
\* returns them, that holds a file of the task.
RECURSIVE FindInLists(_, _, _)
FindInLists(f, lists, taskID) ==
    IF lists = <<>> THEN <<>>
    ELSE IF Exists(f, TaskPath(Head(lists).id, taskID))
         THEN <<TaskPath(Head(lists).id, taskID)>>
         ELSE FindInLists(f, Tail(lists), taskID)

\* Reading the file the lookup found (both variants' "Found the task, read it").
ReadTaskAt(f, path) ==
    LET rd == ReadFile(f, path)
        u  == UnmarshalTask(rd.data)
    IN  IF rd.err # "" THEN Out(f, "IOError", <<>>, FALSE)
        ELSE IF ~u.ok THEN Out(f, "DecodeError", <<>>, FALSE)
        ELSE Out(f, "", <<u.v>>, FALSE)

\* GetTask, second variant, calls GetAllLists (and so RLock) when the
\* direct lookup misses and a list was named.
GetTaskSearches(f, listID, taskID) ==
    ~Exists(f, TaskPath(listID, taskID)) /\ listID # ""

\* GetTask, second variant, when its nested RLock (if any) is admitted.
DoGetTaskFallback(f, listID, taskID) ==
    LET ls    == DoGetAllLists(f)
        found == FindInLists(f, ls.val, taskID)
    IN  IF Exists(f, TaskPath(listID, taskID)) THEN ReadTaskAt(f, TaskPath(listID, taskID))
        ELSE IF listID = "" THEN Out(f, "NotFound", <<>>, FALSE)
        ELSE IF ls.err # "" THEN Out(f, ls.err, <<>>, FALSE)
        ELSE IF found = <<>> THEN Out(f, "NotFound", <<>>, FALSE)
        ELSE ReadTaskAt(f, found[1])

\* DeleteTask, second variant, calls GetAllLists (and so RLock) when the
\* file is not at the resolved path.
DeleteTaskSearches(f, listID, taskID) == ~Exists(f, TaskPath(listID, taskID))

\* DeleteTask, second variant, when its nested RLock (if any) is admitted.
DoDeleteTaskFallback(f, listID, taskID) ==
    LET ls    == DoGetAllLists(f)
        found == FindInLists(f, ls.val, taskID)
        path  == IF Exists(f, TaskPath(listID, taskID))
                 THEN TaskPath(listID, taskID) ELSE found[1]
        r     == Remove(f, path)
    IN  IF DeleteTaskSearches(f, listID, taskID) /\ ls.err # ""
        THEN Out(f, ls.err, <<>>, FALSE)
        ELSE IF DeleteTaskSearches(f, listID, taskID) /\ found = <<>>
        THEN Out(f, "NotFound", <<>>, FALSE)
        ELSE IF ~r.ok THEN Out(f, "IOError", <<>>, FALSE)
        ELSE Out(r.fs, "", <<>>, FALSE)

----------------------------------------------------------------------------
(* The store operations as steps of a caller p that holds the lock. An     *)
(* operation whose body is one step releases the lock (the deferred        *)
(* Unlock or RUnlock) and returns in that step.                            *)

Working(p, op) == pc[p] = "work" /\ call[p].op = op

\* A return of a mutating operation that releases the lock only when the
\* operation succeeded.
WriterReturnHoldingLockOnError(p, r) ==
    /\ clock' = IF r.ticked THEN clock + 1 ELSE clock
    /\ IF r.err = ""
       THEN Unlock(p, r.fs, Result(r.err, r.val))
       ELSE /\ fs' = r.fs
            /\ pc' = [pc EXCEPT ![p] = "idle"]
            /\ ret' = [ret EXCEPT ![p] = Result(r.err, r.val)]
            /\ UNCHANGED <<wOwner, rheld, pre>>
    /\ deleted' = IF call[p].op = "DeleteList" /\ r.err = ""
                  THEN deleted \cup {call[p].list}
                  ELSE IF call[p].op = "CreateList"
                       THEN deleted \ {call[p].list}
                       ELSE deleted
    /\ UNCHANGED <<call, loc, handler>>

\* The last step of a mutating operation, whose body left r.
WriterReturn(p, r) ==
    /\ clock' = IF r.ticked THEN clock + 1 ELSE clock
    /\ Unlock(p, r.fs, Result(r.err, r.val))
    /\ deleted' = IF call[p].op = "DeleteList" /\ r.err = ""
                  THEN deleted \cup {call[p].list}
                  ELSE IF call[p].op = "CreateList"
                       THEN deleted \ {call[p].list}
                       ELSE deleted
    /\ UNCHANGED <<call, loc, handler>>

\* The last step of a read operation, whose body left r.
ReaderReturn(p, r) ==
    /\ RUnlock(p, Result(r.err, r.val))
    /\ UNCHANGED <<clock, call, loc, deleted, handler>>

GetAllLists(p) ==
    /\ Working(p, "GetAllLists")
    /\ ReaderReturn(p, DoGetAllLists(fs))

GetList(p) ==
    /\ Working(p, "GetList")
    /\ ReaderReturn(p, DoGetList(fs, call[p].list))

CreateList(p) ==
    /\ Working(p, "CreateList")
    /\ WriterReturn(p, DoCreateList(fs, call[p].rec, clock + 1))

UpdateList(p) ==
    /\ Working(p, "UpdateList")
    /\ WriterReturn(p, DoUpdateList(fs, call[p].rec, clock + 1))

DeleteList(p) ==
    /\ Working(p, "DeleteList")
    /\ WriterReturn(p, DoDeleteList(fs, call[p].list))

\* GetAllTasks holds the shared lock and calls GetAllLists, which takes the
\* shared lock again: it is admitted only if no writer has claimed the
\* lock meanwhile, reads the lists and releases its own hold.
GetAllTasks(p) ==
    /\ Working(p, "GetAllTasks")
    /\ IF CanRLock
       THEN LET ls == DoGetAllLists(fs)
            IN  IF ls.err # ""
                THEN ReaderReturn(p, ls)
                ELSE /\ pc' = [pc EXCEPT ![p] = "scan"]
                     /\ loc' = [loc EXCEPT ![p] = [lists |-> ls.val, tasks |-> <<>>]]
                     /\ UNCHANGED <<fs, clock, wOwner, rheld, call, ret, pre, deleted, handler>>
       ELSE /\ pc' = [pc EXCEPT ![p] = "nested_rlock"]
            /\ UNCHANGED <<fs, clock, wOwner, rheld, call, loc, ret, pre, deleted, handler>>

\* One round of GetAllTasks' loop over the lists; the return after it.
GetAllTasksScan(p) ==
    /\ pc[p] = "scan"
    /\ IF loc[p].lists = <<>>
       THEN ReaderReturn(p, Out(fs, "", loc[p].tasks, FALSE))
       ELSE     /\ loc' = [loc EXCEPT ![p] =
                            [lists |-> Tail(loc[p].lists),
                             tasks |-> loc[p].tasks \o TasksOrNone(fs, Head(loc[p].lists))]]
                /\ UNCHANGED <<fs, clock, wOwner, rheld, pc, call, ret, pre, deleted, handler>>

GetTasksForList(p) ==
    /\ Working(p, "GetTasksForList")
    /\ ReaderReturn(p, getTasksForList(fs, call[p].list))

GetTask(p) ==
    /\ Working(p, "GetTask")
    /\ ReaderReturn(p, DoGetTask(fs, call[p].list, call[p].task))

CreateTask(p) ==
    /\ Working(p, "CreateTask")
    /\ WriterReturn(p, DoCreateTask(fs, call[p].rec, clock + 1))

\* An UpdateTask that removes the records with the same identifier from
\* the other lists.
UpdateTaskRemovingOldRecord(p) ==
    /\ Working(p, "UpdateTask")
    /\ LET r    == DoUpdateTask(fs, call[p].rec, clock + 1)
           gone == {TaskPath(l, call[p].rec.id) : l \in ListIDs \ {call[p].rec.list_id}}
       IN  WriterReturn(p, IF r.err = "" THEN [r EXCEPT !.fs = Drop(r.fs, gone)] ELSE r)

UpdateTask(p) ==
    /\ Working(p, "UpdateTask")
    /\ WriterReturn(p, DoUpdateTask(fs, call[p].rec, clock + 1))

\* A MoveTask that writes the record with the list_id it read.
MoveTaskKeepingListID(p) ==
    /\ Working(p, "MoveTask")
    /\ LET r == DoMoveTaskRead(fs, call[p].list, call[p].task, call[p].dest, clock + 1)
       IN  IF r.err # ""
           THEN WriterReturn(p, r)
           ELSE /\ fs' = r.fs
                /\ clock' = clock + 1
                /\ pc' = [pc EXCEPT ![p] = "mv_write"]
                /\ loc' = [loc EXCEPT ![p] = [task |-> [r.val[1] EXCEPT !.list_id = call[p].list]]]
                /\ UNCHANGED <<wOwner, rheld, call, ret, pre, deleted, handler>>

\* MoveTask: read and checks, then the write, then the delete.
MoveTask(p) ==
    /\ Working(p, "MoveTask")
    /\ LET r == DoMoveTaskRead(fs, call[p].list, call[p].task, call[p].dest, clock + 1)
       IN  IF r.err # ""
           THEN WriterReturn(p, r)
           ELSE /\ fs' = r.fs
                /\ clock' = clock + 1
                /\ pc' = [pc EXCEPT ![p] = "mv_write"]
                /\ loc' = [loc EXCEPT ![p] = [task |-> r.val[1]]]
                /\ UNCHANGED <<wOwner, rheld, call, ret, pre, deleted, handler>>

MoveTaskWrite(p) ==
    /\ pc[p] = "mv_write"
    /\ \E fail \in WriteFailures :
       LET r == DoMoveTaskWrite(fs, call[p].task, call[p].dest, loc[p].task, fail)
       IN  IF r.err # ""
           THEN WriterReturn(p, r)
           ELSE /\ fs' = r.fs
                /\ pc' = [pc EXCEPT ![p] = "mv_remove"]
                /\ UNCHANGED <<clock, wOwner, rheld, call, loc, ret, pre, deleted, handler>>

MoveTaskRemove(p) ==
    /\ pc[p] = "mv_remove"
    /\ \E fail \in RemoveFailures :
         WriterReturn(p, DoMoveTaskRemove(fs, call[p].list, call[p].task, loc[p].task, fail))

DeleteTask(p) ==
    /\ Working(p, "DeleteTask")
    /\ WriterReturn(p, DoDeleteTask(fs, call[p].list, call[p].task))

\* GetTask, second variant: the direct lookup, and when it misses the
\* nested GetAllLists (a second RLock) and the search of every list.
GetTaskFallback(p) ==
    /\ Working(p, "GetTaskFallback")
    /\ IF GetTaskSearches(fs, call[p].list, call[p].task) => CanRLock
       THEN ReaderReturn(p, DoGetTaskFallback(fs, call[p].list, call[p].task))
       ELSE /\ pc' = [pc EXCEPT ![p] = "nested_rlock"]
            /\ UNCHANGED <<fs, clock, wOwner, rheld, call, loc, ret, pre, deleted, handler>>

\* DeleteTask, second variant: the direct delete, and when the file is
\* missing the nested GetAllLists, whose RLock is called by the holder of
\* the exclusive lock.
DeleteTaskFallback(p) ==
    /\ Working(p, "DeleteTaskFallback")
    /\ IF DeleteTaskSearches(fs, call[p].list, call[p].task) => CanRLock
       THEN WriterReturn(p, DoDeleteTaskFallback(fs, call[p].list, call[p].task))
       ELSE /\ pc' = [pc EXCEPT ![p] = "nested_rlock"]
            /\ UNCHANGED <<fs, clock, wOwner, rheld, call, loc, ret, pre, deleted, handler>>

----------------------------------------------------------------------------
(* NewFileStore: the base directory and its lists directory exist (they   *)
(* are created if missing), the lock is free, no caller has called yet.    *)
(* The store is opened on an empty base directory, or on the tree an       *)
(* earlier run left: here the one two CreateList calls left.               *)

EmptyTree == MkdirAll(MkdirAll(<<>> :> DirNode, <<>>).fs, ListsDir).fs
EarlierTree ==
    DoCreateList(DoCreateList(EmptyTree, ListA("A"), 1).fs, ListB("B"), 2).fs

Init ==
    /\ fs \in {EmptyTree, EarlierTree}
    /\ clock = InitClock
    /\ wOwner = NoProc
    /\ rheld = [p \in Procs |-> 0]
    /\ pc = [p \in Procs |-> "idle"]
    /\ call = [p \in Procs |-> NoCall]
    /\ loc = [p \in Procs |-> NoRec]
    /\ ret = [p \in Procs |-> NoResult]
    /\ pre = [p \in Procs |-> fs]
    /\ deleted = {}
    /\ handler = [p \in Procs |-> NoHandler]

\* One caller, every operation with every argument.
Next ==
    \/ \E c \in AllCalls : Invoke(1, c)
    \/ GetAllLists(1)
    \/ GetList(1)
    \/ CreateList(1)
    \/ UpdateList(1)
    \/ DeleteList(1)
    \/ GetAllTasks(1)
    \/ GetAllTasksScan(1)
    \/ GetTasksForList(1)
    \/ GetTask(1)
    \/ CreateTask(1)
    \/ UpdateTask(1)
    \/ MoveTask(1)
    \/ MoveTaskWrite(1)
    \/ MoveTaskRemove(1)
    \/ DeleteTask(1)
    \/ GetTaskFallback(1)
    \/ DeleteTaskFallback(1)

Spec == Init /\ [][Next]_vars

----------------------------------------------------------------------------
(* Concurrent callers (the request handlers of the service), each running  *)
(* one operation at a time.                                                *)

ConcCalls ==
    {Call("GetAllLists", "", "", "", NoRec),
     Call("GetList", "A", "", "", NoRec),
     Call("CreateList", "A", "", "", ListA("A")),
     Call("UpdateList", "A", "", "", ListA("A")),
     Call("DeleteList", "A", "", "", NoRec),
     Call("GetAllTasks", "", "", "", NoRec),
     Call("GetTasksForList", "A", "", "", NoRec),
     Call("GetTask", "A", "t1", "", NoRec),
     Call("CreateTask", "A", "t1", "", TaskA("A", "t1")),
     Call("CreateTask", "A", "t2", "", TaskB("A", "t2")),
     Call("UpdateTask", "A", "t1", "", TaskB("A", "t1")),
     Call("MoveTask", "A", "t1", "B", NoRec),
     Call("DeleteTask", "A", "t1", "", NoRec),
     Call("GetTaskFallback", "B", "t1", "", NoRec),
     Call("DeleteTaskFallback", "A", "t1", "", NoRec)}

ConcNext ==
    \E p \in Procs :
        \/ \E c \in ConcCalls : Invoke(p, c)
        \/ GetAllLists(p)
        \/ GetList(p)
        \/ CreateList(p)
        \/ UpdateList(p)
        \/ DeleteList(p)
        \/ GetAllTasks(p)
        \/ GetAllTasksScan(p)
        \/ GetTasksForList(p)
        \/ GetTask(p)
        \/ CreateTask(p)
        \/ UpdateTask(p)
        \/ MoveTask(p)
        \/ MoveTaskWrite(p)
        \/ MoveTaskRemove(p)
        \/ DeleteTask(p)
        \/ GetTaskFallback(p)
        \/ DeleteTaskFallback(p)

ConcSpec == Init /\ [][ConcNext]_vars

----------------------------------------------------------------------------
(* The transport layer: the handlers of the create-task and update-task    *)
(* requests. A request names the list (and the task) in its URL and        *)
(* carries a body, form encoded or JSON: body.f maps the keys that are     *)
(* present to their values. Every time.Now() of a handler reads a new      *)
(* clock value. Responses are the JSON ones.                               *)

Request(kind, list, task, body) ==
    [kind |-> kind, list |-> list, task |-> task, body |-> body]
Form(f) == [ctype |-> "form", f |-> f]
Json(f) == [ctype |-> "json", f |-> f]

\* var task models.Task
ZeroTask ==
    [id |-> "", title |-> "", description |-> "", list_id |-> "",
     state |-> "", state_time |-> 0, due_date |-> <<>>,
     created_at |-> 0, updated_at |-> 0, notes |-> <<>>, sub_tasks |-> <<>>]

\* r.FormValue(k): the empty string when the key is absent.
FormValue(f, k) == IF k \in DOMAIN f THEN f[k] ELSE ""

\* time.Parse("2006-01-02", s)
ParseDate(s) ==
    IF s = "2024-01-02" THEN [ok |-> TRUE, v |-> <<2>>]
    ELSE IF s = "2024-01-03" THEN [ok |-> TRUE, v |-> <<3>>]
    ELSE [ok |-> FALSE, v |-> <<>>]

\* decodeBody: json.NewDecoder(r.Body).Decode(task) sets the fields whose
\* keys the body holds and leaves the others.
DecodeBody(task, j) ==
    [ok |-> IsObject(j),
     v  |-> [k \in DOMAIN task |-> IF IsObject(j) /\ k \in DOMAIN j THEN j[k] ELSE task[k]]]

\* The form branch of HandleCreateTask.
CreateTaskForm(f) ==
    [ZeroTask EXCEPT
        !.title = FormValue(f, "title"),
        !.description = FormValue(f, "description"),
        !.state = FormValue(f, "state"),
        !.due_date = IF FormValue(f, "due_date") # "" /\ ParseDate(FormValue(f, "due_date")).ok
                     THEN ParseDate(FormValue(f, "due_date")).v ELSE <<>>]

\* The form branch of parseTaskFormOrJSON.
UpdateTaskForm(task, f) ==
    [task EXCEPT
        !.title = IF FormValue(f, "title") # "" THEN FormValue(f, "title") ELSE @,
        !.description = IF "description" \in DOMAIN f THEN f.description ELSE @,
        !.state = IF FormValue(f, "state") # "" THEN FormValue(f, "state") ELSE @,
        !.list_id = IF FormValue(f, "list_id") # "" THEN FormValue(f, "list_id") ELSE @,
        !.due_date = IF "due_date" \notin DOMAIN f THEN @
                     ELSE IF f.due_date \in {"clear", ""} THEN <<>>
                     ELSE IF ParseDate(f.due_date).ok THEN ParseDate(f.due_date).v
                     ELSE @]

parseTaskFormOrJSON(body, task) ==
    IF body.ctype = "form"
    THEN [ok |-> TRUE, v |-> UpdateTaskForm(task, body.f)]
    ELSE DecodeBody(task, body.f)

\* if task.State == "" { task.State = models.TaskStateTodo }
DefaultState(task) == [task EXCEPT !.state = IF @ = "" THEN "todo" ELSE @]

\* uuid.New(): an identifier that no stored task has.
FreshIDs(f) ==
    {id \in TaskIDs : \A l \in ListIDs : ~Exists(f, TaskPath(l, id))}

\* The requests that are received.
CreateRequests ==
    {Request("create", "A", "", Form([title |-> "x"])),
     Request("create", "A", "", Form([description |-> "d"])),
     Request("create", "A", "", Form([title |-> "x", state |-> "bogus"])),
     Request("create", "A", "",
             Json([id |-> "t1", title |-> "y", state |-> "done", state_time |-> 1]))}
UpdateRequests ==
    {Request("update", "A", "t1", Form([title |-> "z"])),
     Request("update", "A", "t1", Form([state |-> "done"])),
     Request("update", "A", "t1", Form([list_id |-> "B"])),
     Request("update", "A", "t1", Form([state |-> "done", list_id |-> "B"])),
     Request("update", "A", "t1", Json([state_time |-> 1])),
     Request("update", "A", "t1", Json([title |-> "z", state |-> "blocked"])),
     Request("update", "A", "t1", Json([title |-> ""])),
     Request("update", "A", "t1", Form([state |-> "bogus"])),
     Request("update", "A", "t2", Form([title |-> "n"])),
     Request("update", "A", "t2", Form([description |-> "d"]))}

\* Requests are received while the clock is below this value.
LastRequestClock == InitClock + MaxTicks + MaxTicks

\* A handler can take a new request.
Free(p) == handler[p].phase \in {"none", "done"} /\ pc[p] = "idle"

\* The response that ends a request before any call of the store.
Reject(p, r, status) ==
    /\ handler' = [handler EXCEPT ![p] = Handler("done", r, clock, NoRec, NoRec, status)]
    /\ UNCHANGED <<fs, clock, wOwner, rheld, pc, call, loc, ret, pre, deleted>>

\* HandleCreateTask up to its call of store.CreateTask.
HandleCreateTask(p, r) ==
    /\ Free(p)
    /\ clock < LastRequestClock
    /\ LET parsed == IF r.body.ctype = "form"
                     THEN [ok |-> TRUE, v |-> CreateTaskForm(r.body.f)]
                     ELSE DecodeBody(ZeroTask, r.body.f)
       IN  IF ~parsed.ok \/ parsed.v.title = ""
           THEN Reject(p, r, 400)
           ELSE \E id \in (IF parsed.v.id = "" THEN FreshIDs(fs) ELSE {parsed.v.id}) :
                  LET now  == clock + 1
                      task == DefaultState([parsed.v EXCEPT
                                  !.list_id = r.list, !.id = id,
                                  !.created_at = now, !.updated_at = now,
                                  !.state_time = now])
                  IN  /\ Enter(p, Call("CreateTask", task.list_id, task.id, "", task))
                      /\ clock' = now
                      /\ handler' = [handler EXCEPT ![p] =
                                        Handler("write", r, clock, NoRec, task, 0)]
                      /\ UNCHANGED deleted

\* HandleUpdateTask up to its call of store.GetTask.
HandleUpdateTask(p, r) ==
    /\ Free(p)
    /\ clock < LastRequestClock
    /\ Enter(p, Call("GetTask", r.list, r.task, "", NoRec))
    /\ handler' = [handler EXCEPT ![p] = Handler("get", r, clock, NoRec, NoRec, 0)]
    /\ UNCHANGED <<clock, deleted>>

\* HandleUpdateTask from the return of store.GetTask to its call of
\* store.UpdateTask, store.MoveTask or, when GetTask failed, store.CreateTask.
HandleUpdateTaskWrite(p) ==
    /\ handler[p].phase = "get"
    /\ pc[p] = "idle"
    /\ LET r == handler[p].req
       IN  IF ret[p].err = ""
           THEN LET existing == ret[p].val[1]
                    parsed   == parseTaskFormOrJSON(r.body, existing)
                    changed  == parsed.v.state # existing.state
                    task     == [parsed.v EXCEPT
                                    !.updated_at = clock + 1,
                                    !.state_time = IF changed THEN clock + 2 ELSE @]
                IN  IF ~parsed.ok
                    THEN Reject(p, r, 400)
                    ELSE /\ IF task.list_id # r.list
                            THEN Enter(p, Call("MoveTask", r.list, r.task, task.list_id, NoRec))
                            ELSE Enter(p, Call("UpdateTask", task.list_id, task.id, "", task))
                         /\ clock' = IF changed THEN clock + 2 ELSE clock + 1
                         /\ handler' = [handler EXCEPT ![p] =
                                Handler("write", r, handler[p].start, existing, task, 0)]
                         /\ UNCHANGED deleted
           ELSE LET parsed == parseTaskFormOrJSON(r.body,
                                 [ZeroTask EXCEPT !.id = r.task, !.list_id = r.list])
                    now    == clock + 1
                    task   == DefaultState([parsed.v EXCEPT
                                 !.created_at = now, !.updated_at = now,
                                 !.state_time = now])
                IN  IF ~parsed.ok
                    THEN Reject(p, r, 400)
                    ELSE /\ Enter(p, Call("CreateTask", task.list_id, task.id, "", task))
                         /\ clock' = now
                         /\ handler' = [handler EXCEPT ![p] =
                                Handler("write", r, handler[p].start, NoRec, task, 0)]
                         /\ UNCHANGED deleted

\* The response after the store's write: an error status when the store
\* returned an error, else the task, which CreateTask and UpdateTask have
\* stamped through the pointer they were given.
Respond(p) ==
    /\ handler[p].phase = "write"
    /\ pc[p] = "idle"
    /\ handler' = [handler EXCEPT ![p] =
          [@ EXCEPT !.phase = "done",
                    !.status = IF ret[p].err # "" THEN 500
                               ELSE IF handler[p].req.kind = "create" THEN 201 ELSE 200,
                    !.task = IF ret[p].err = "" /\ call[p].op \in {"CreateTask", "UpdateTask"}
                             THEN ret[p].val[1] ELSE @]]
    /\ UNCHANGED <<fs, clock, wOwner, rheld, pc, call, loc, ret, pre, deleted>>

\* One client of the service, sending one request at a time.
ApiNext ==
    \/ \E r \in CreateRequests : HandleCreateTask(1, r)
    \/ \E r \in UpdateRequests : HandleUpdateTask(1, r)
    \/ HandleUpdateTaskWrite(1)
    \/ Respond(1)
    \/ GetTask(1)
    \/ CreateTask(1)
    \/ UpdateTask(1)
    \/ MoveTask(1)
    \/ MoveTaskWrite(1)
    \/ MoveTaskRemove(1)

ApiSpec == Init /\ [][ApiNext]_vars

----------------------------------------------------------------------------
(* Vocabulary of the properties.                                           *)

\* Caller p is between the return of its Lock or RLock and its return.
InStore(p) == pc[p] \in {"work", "scan", "mv_write", "mv_remove", "nested_rlock"}

\* Caller p has called an operation that has not returned.
InCall(p) == pc[p] # "idle"

\* Caller p's last call was op and has returned.
Returned(p, op) == pc[p] = "idle" /\ call[p].op = op

\* A step of an operation that caller p has in progress.
StoreStep(p) ==
    \/ GetAllLists(p) \/ GetList(p) \/ CreateList(p) \/ UpdateList(p)
    \/ DeleteList(p) \/ GetAllTasks(p) \/ GetAllTasksScan(p)
    \/ GetTasksForList(p) \/ GetTask(p) \/ CreateTask(p) \/ UpdateTask(p)
    \/ MoveTask(p) \/ MoveTaskWrite(p) \/ MoveTaskRemove(p) \/ DeleteTask(p)
    \/ GetTaskFallback(p) \/ DeleteTaskFallback(p)

\* The file at path holds a task record (and not the rest of a write
\* that failed half way).
IsRecordFile(f, path) == IsFile(f, path) /\ IsObject(f[path].data)

\* The task files of every list, with their contents.
TaskFiles(f) ==
    {path \in DOMAIN f : /\ Len(path) = 4
                         /\ path[1] = "lists"
                         /\ path[3] = "tasks"
                         /\ IsFile(f, path)}
TaskRecords(f) == [path \in TaskFiles(f) |-> f[path]]

----------------------------------------------------------------------------
(* C1  Mutual exclusion.                                                   *)

----------------------------------------------------------------------------
(* C2  Every operation returns.                                            *)

\* C2: an operation that was invoked returns; for GetAllTasks, which holds
\* the shared lock and takes it again through GetAllLists, this requires
\* that while a GetAllTasks call holds the lock some operation in progress
\* can take a step, whatever the writers that wait for the lock.  (No
\* step of a new call frees a caller that is blocked: where this fails,
\* the GetAllTasks call never returns.)
C2_GetAllTasksCanProceed ==
    \A p \in Procs :
        (InStore(p) /\ call[p].op = "GetAllTasks")
            => ENABLED (\E q \in Procs : StoreStep(q))

----------------------------------------------------------------------------
(* C3  DeleteTask of a record that is not there.                           *)

\* C3: a DeleteTask(listID, taskID) that finds no record at the resolved
\* path, once it has the lock and has looked, has returned NotFound and
\* has left every task record of every list as it was.
C3_DeleteMissingIsNotFound ==
    \A p \in Procs :
        ( /\ call[p].op \in {"DeleteTask", "DeleteTaskFallback"}
          /\ ~Exists(pre[p], TaskPath(call[p].list, call[p].task))
          /\ pc[p] \notin {"wwait", "work"} )
        => ( /\ pc[p] = "idle"
             /\ ret[p].err = "NotFound"
             /\ TaskRecords(fs) = TaskRecords(pre[p]) )

----------------------------------------------------------------------------
(* C4  Round trip.                                                         *)

\* The fields of a task that the caller chooses.
CallerFields(task) ==
    [k \in {"id", "list_id", "title", "description", "state", "due_date",
            "notes", "sub_tasks"} |-> task[k]]

----------------------------------------------------------------------------
(* C5  Move.                                                               *)

\* C5: after MoveTask(A, t, B) has succeeded, A and B distinct, GetTask(B, t)
\* returns the record that was stored in A with list_id = B and a new
\* updated_at, every other field equal, and GetTask(A, t), in either
\* variant, fails with NotFound.
C5_MovedTaskOnlyInDestination ==
    \A p \in Procs :
        (Returned(p, "MoveTask") /\ ret[p].err = "" /\ call[p].list # call[p].dest) =>
            LET old == DoGetTask(pre[p], call[p].list, call[p].task)
                new == DoGetTask(fs, call[p].dest, call[p].task)
            IN  /\ new.err = ""
                /\ new.val[1].list_id = call[p].dest
                /\ new.val[1] = [old.val[1] EXCEPT !.list_id = call[p].dest,
                                                   !.updated_at = new.val[1].updated_at]
                /\ DoGetTask(fs, call[p].list, call[p].task).err = "NotFound"
                /\ DoGetTaskFallback(fs, call[p].list, call[p].task).err = "NotFound"

----------------------------------------------------------------------------
(* C6  Move to a list that does not exist.                                 *)

\* MoveTask(A, t, B) was called with a record of t stored in A and no
\* container of B.
MoveToMissingList(p) ==
    /\ call[p].op = "MoveTask"
    /\ IsRecordFile(pre[p], TaskPath(call[p].list, call[p].task))
    /\ ~Exists(pre[p], ListDir(call[p].dest))

\* C6: a MoveTask(A, t, B) with t stored in A and no container of B
\* returns NotFound, leaves the record of t in A as it was (list_id and
\* updated_at included) and creates no container for B.
C6_MoveToMissingListChangesNothing ==
    \A p \in Procs :
        (MoveToMissingList(p) /\ pc[p] \notin {"wwait", "work"}) =>
            /\ pc[p] = "idle"
            /\ ret[p].err = "NotFound"
            /\ fs[TaskPath(call[p].list, call[p].task)]
                 = pre[p][TaskPath(call[p].list, call[p].task)]
            /\ DoGetTask(fs, call[p].list, call[p].task)
                 = DoGetTask(pre[p], call[p].list, call[p].task)
            /\ ~Exists(fs, ListDir(call[p].dest))

\* Such a MoveTask has returned.
C6_MoveToMissingListReturned ==
    \E p \in Procs : MoveToMissingList(p) /\ pc[p] = "idle" /\ ret[p].err = "NotFound"

----------------------------------------------------------------------------
(* C7  Move never loses the task.                                          *)

\* C7: from the moment a MoveTask(A, t, B), A and B distinct, has read the
\* record of t in A, whether its write or its delete fails or not, a
\* record of t is stored in A or in B; the file in A is gone only when
\* the record with list_id = B is stored in B.
C7_MoveNeverLosesTask ==
    \A p \in Procs :
        ( /\ call[p].op = "MoveTask"
          /\ call[p].list # call[p].dest
          /\ pc[p] \in {"mv_write", "mv_remove", "idle"}
          /\ IsRecordFile(pre[p], TaskPath(call[p].list, call[p].task)) )
        => LET src == TaskPath(call[p].list, call[p].task)
               dst == TaskPath(call[p].dest, call[p].task)
           IN  /\ IsRecordFile(fs, src) \/ IsRecordFile(fs, dst)
               /\ ~Exists(fs, src) =>
                     /\ IsRecordFile(fs, dst)
                     /\ DecodeTask(fs[dst].data).id = call[p].task
                     /\ DecodeTask(fs[dst].data).list_id = call[p].dest

\* A MoveTask whose write failed half way has returned: the destination
\* holds the rest of the write, the source the record.
C7_MoveFailedHalfWay ==
    \E p \in Procs :
        /\ Returned(p, "MoveTask")
        /\ ret[p].err = "IOError"
        /\ call[p].list # call[p].dest
        /\ IsRecordFile(fs, TaskPath(call[p].list, call[p].task))
        /\ IsFile(fs, TaskPath(call[p].dest, call[p].task))
        /\ ~IsRecordFile(fs, TaskPath(call[p].dest, call[p].task))

----------------------------------------------------------------------------
(* C8  A deleted list stays deleted.                                       *)

\* C8: for a list L that DeleteList has removed, and no CreateList of L's
\* id since, GetList(L) and GetTasksForList(L) fail with NotFound,
\* whatever other operations have run since.
C8_DeletedListStaysNotFound ==
    \A l \in deleted :
        /\ DoGetList(fs, l).err = "NotFound"
        /\ getTasksForList(fs, l).err = "NotFound"

----------------------------------------------------------------------------
(* C9  Cascading delete.                                                   *)

\* C9: after DeleteList(L) has succeeded on a list that held tasks,
\* GetTask(L, t), in either variant, fails for every task t that L held,
\* GetTasksForList(L) fails, and GetAllTasks returns no record with
\* list_id = L.
C9_DeleteListCascades ==
    \A p \in Procs :
        (Returned(p, "DeleteList") /\ ret[p].err = "") =>
            LET L   == call[p].list
                all == DoGetAllTasks(fs).val
            IN  /\ \A t \in TaskIDs :
                      IsRecordFile(pre[p], TaskPath(L, t)) =>
                          /\ DoGetTask(fs, L, t).err # ""
                          /\ DoGetTaskFallback(fs, L, t).err # ""
                /\ getTasksForList(fs, L).err # ""
                /\ \A i \in 1..Len(all) : all[i].list_id # L

----------------------------------------------------------------------------
(* C10  Concurrent creates.                                                *)

\* Each of the callers creates tasks with an id of its own, in list A, and
\* reads the list.
WriterID(p) == IF p = 1 THEN "t1" ELSE IF p = 2 THEN "t2" ELSE "t3"
WriterCalls(p) ==
    {Call("CreateTask", "A", WriterID(p), "", TaskA("A", WriterID(p))),
     Call("CreateTask", "A", WriterID(p), "", TaskB("A", WriterID(p))),
     Call("GetTasksForList", "A", "", "", NoRec)}

WritersNext ==
    \E p \in Procs :
        \/ \E c \in WriterCalls(p) : Invoke(p, c)
        \/ CreateTask(p)
        \/ GetTasksForList(p)

WritersSpec == Init /\ [][WritersNext]_vars

\* C10: when callers concurrently call CreateTask into the same existing
\* list with ids that differ from caller to caller, every call succeeds,
\* and the task of every call that has returned is among the tasks that
\* GetTasksForList returns for the list: all of them once all have returned.
C10_ConcurrentCreatesPersist ==
    \A p \in Procs :
        (Returned(p, "CreateTask") /\ Exists(pre[p], ListDir(call[p].list))) =>
            LET ts == getTasksForList(fs, call[p].list)
            IN  /\ ret[p].err = ""
                /\ ts.err = ""
                /\ \E i \in 1..Len(ts.val) :
                      CallerFields(ts.val[i]) = CallerFields(call[p].rec)

\* Every caller's CreateTask has returned, one having waited for the lock
\* that another held.
C10_AllCreatesReturned ==
    /\ \A p \in Procs : Returned(p, "CreateTask") /\ ret[p].err = ""
    /\ \E p \in Procs : pre[p] # EarlierTree

----------------------------------------------------------------------------
(* C11  Readers see whole operations.                                      *)

TaskReads == {"GetTask", "GetTaskFallback", "GetTasksForList", "GetAllTasks"}

\* What the read operation of call c returns when run on the tree f.
ReadResult(c, f) ==
    LET r == IF c.op = "GetTask" THEN DoGetTask(f, c.list, c.task)
             ELSE IF c.op = "GetTaskFallback" THEN DoGetTaskFallback(f, c.list, c.task)
             ELSE IF c.op = "GetTasksForList" THEN getTasksForList(f, c.list)
             ELSE DoGetAllTasks(f)
    IN  Result(r.err, r.val)

\* A MoveTask is between its first and its last file system call.
MovePartWay(q) == pc[q] \in {"mv_write", "mv_remove"}

\* The records of task t that a GetAllTasks result holds for list l.
Copies(tasks, l, t) ==
    Cardinality({i \in 1..Len(tasks) : tasks[i].id = t /\ tasks[i].list_id = l})

\* While a task read holds the lock the tree is the one it found when it
\* got the lock and no MoveTask is part way; what it returns is what the
\* operation gives on that tree.
ReadsAreIsolated ==
    \A p \in Procs :
        call[p].op \in TaskReads =>
            /\ InStore(p) => (fs = pre[p] /\ \A q \in Procs : ~MovePartWay(q))
            /\ pc[p] = "idle" => ret[p] = ReadResult(call[p], pre[p])

\* A MoveTask(A, t, B), A and B distinct, that returns success hands to
\* the reads that waited for it a tree on which GetAllTasks returns t
\* once, in B.
MoveReleasesWholeResult ==
    \A q \in Procs :
        ( /\ call[q].op = "MoveTask"
          /\ call[q].list # call[q].dest
          /\ InStore(q)
          /\ pc'[q] = "idle"
          /\ ret'[q].err = "" )
        => \A p \in Procs :
             (pc[p] = "rwait" /\ call[p].op \in TaskReads) =>
                 /\ pc'[p] = "work"
                 /\ pre'[p] = fs'
                 /\ Copies(DoGetAllTasks(pre'[p]).val, call[q].list, call[q].task) = 0
                 /\ Copies(DoGetAllTasks(pre'[p]).val, call[q].dest, call[q].task) = 1

----------------------------------------------------------------------------
(* C12, C13  state_time.                                                   *)

\* Handler p has answered an update request for a task that GetTask
\* returned, with success.
UpdatedExisting(p) ==
    /\ handler[p].phase = "done"
    /\ handler[p].req.kind = "update"
    /\ handler[p].existing # NoRec
    /\ handler[p].status = 200

\* The record stored for the task that handler p's response describes.
StoredTask(p) == DoGetTask(fs, handler[p].task.list_id, handler[p].task.id)

\* The request handler p served asked for a new state.
ChangesState(p) == handler[p].task.state # handler[p].existing.state

\* The request handler p served asked for changes of title, description,
\* due_date and list_id only.
ChangesOtherFieldsOnly(p) ==
    [handler[p].task EXCEPT !.title = handler[p].existing.title,
                            !.description = handler[p].existing.description,
                            !.due_date = handler[p].existing.due_date,
                            !.list_id = handler[p].existing.list_id,
                            !.updated_at = handler[p].existing.updated_at]
        = handler[p].existing

\* C12: after an update request on an existing task that changes the
\* state, the stored record has the new state and a state_time that was
\* read from the clock while the request was served, not less than the
\* state_time before; after an update request that changes only title,
\* description, due_date or list_id, the stored state_time is the one
\* stored before.
C12_StateChangeRestampsStateTime ==
    \A p \in Procs :
        UpdatedExisting(p) =>
            /\ ChangesState(p) =>
                  /\ StoredTask(p).err = ""
                  /\ StoredTask(p).val[1].state = handler[p].task.state
                  /\ StoredTask(p).val[1].state_time > handler[p].start
                  /\ StoredTask(p).val[1].state_time >= handler[p].existing.state_time
            /\ ChangesOtherFieldsOnly(p) =>
                  /\ StoredTask(p).err = ""
                  /\ StoredTask(p).val[1].state_time = handler[p].existing.state_time

\* C13: after a create request or an update request that succeeded, the
\* stored state_time is the one stored before the request or a value read
\* from the clock while the request was served (always the latter when
\* the request created the task), whatever state_time the body carried.
C13_StateTimeNotFromCaller ==
    \A p \in Procs :
        (handler[p].phase = "done" /\ handler[p].status \in {200, 201}) =>
            /\ StoredTask(p).err = ""
            /\ \/ StoredTask(p).val[1].state_time > handler[p].start
               \/ /\ handler[p].existing # NoRec
                  /\ StoredTask(p).val[1].state_time = handler[p].existing.state_time

----------------------------------------------------------------------------
(* C14  created_at.                                                        *)

\* The list record and the task record stored under an identifier, as
\* GetList and GetTask decode them.
StoredList(f, l) == DoGetList(f, l)
StoredTaskAt(f, l, t) == DoGetTask(f, l, t)

\* A step keeps the created_at of every record that is stored before and
\* after it; the write of MoveTask stores the created_at of the record it
\* moves.
CreatedAtKept ==
    /\ \A l \in ListIDs :
          (StoredList(fs, l).err = "" /\ StoredList(fs', l).err = "") =>
              StoredList(fs', l).val[1].created_at = StoredList(fs, l).val[1].created_at
    /\ \A l \in ListIDs, t \in TaskIDs :
          (StoredTaskAt(fs, l, t).err = "" /\ StoredTaskAt(fs', l, t).err = "") =>
              StoredTaskAt(fs', l, t).val[1].created_at
                  = StoredTaskAt(fs, l, t).val[1].created_at
    /\ \A p \in Procs :
          (pc[p] = "mv_write" /\ pc'[p] = "mv_remove") =>
              StoredTaskAt(fs', call[p].dest, call[p].task).val[1].created_at
                  = StoredTaskAt(fs, call[p].list, call[p].task).val[1].created_at

\* C14: no step of the store changes the created_at of a list record or
\* of a task record that exists before and after the step, whether the
\* step belongs to UpdateList, UpdateTask, MoveTask or to a CreateList or
\* CreateTask for an identifier that is already stored.
C14_CreatedAtImmutable == [][CreatedAtKept]_vars

----------------------------------------------------------------------------
(* C15  updated_at.                                                        *)

\* Caller p's operation op returns with success in this step.
Succeeds(p, op) ==
    /\ pc[p] = "work" /\ call[p].op = op
    /\ pc'[p] = "idle" /\ ret'[p].err = ""

\* The step in which an operation writes its record reads the clock once
\* and stores the record with that value as updated_at (MoveTask reads
\* the clock in the step before its write); a create stores created_at
\* with the same value.
UpdatedAtIsWriteTime ==
    \A p \in Procs :
        /\ \A op \in {"CreateList", "UpdateList"} :
              Succeeds(p, op) =>
                  /\ clock' = clock + 1
                  /\ StoredList(fs', call[p].list).err = ""
                  /\ StoredList(fs', call[p].list).val[1].updated_at = clock'
                  /\ op = "CreateList" =>
                        StoredList(fs', call[p].list).val[1].created_at = clock'
        /\ \A op \in {"CreateTask", "UpdateTask"} :
              Succeeds(p, op) =>
                  /\ clock' = clock + 1
                  /\ StoredTaskAt(fs', call[p].list, call[p].task).err = ""
                  /\ StoredTaskAt(fs', call[p].list, call[p].task).val[1].updated_at = clock'
                  /\ op = "CreateTask" =>
                        StoredTaskAt(fs', call[p].list, call[p].task).val[1].created_at = clock'
        /\ (pc[p] = "work" /\ call[p].op = "MoveTask" /\ pc'[p] = "mv_write") =>
                  /\ clock' = clock + 1
                  /\ loc'[p].task.updated_at = clock'
        /\ (pc[p] = "mv_write" /\ pc'[p] = "mv_remove") =>
                  /\ StoredTaskAt(fs', call[p].dest, call[p].task).err = ""
                  /\ StoredTaskAt(fs', call[p].dest, call[p].task).val[1].updated_at
                        = loc[p].task.updated_at
                  /\ loc[p].task.updated_at
                        >= StoredTaskAt(fs, call[p].list, call[p].task).val[1].updated_at

\* No step lowers the updated_at of a record stored before and after it.
UpdatedAtNeverDecreases ==
    /\ \A l \in ListIDs :
          (StoredList(fs, l).err = "" /\ StoredList(fs', l).err = "") =>
              StoredList(fs', l).val[1].updated_at >= StoredList(fs, l).val[1].updated_at
    /\ \A l \in ListIDs, t \in TaskIDs :
          (StoredTaskAt(fs, l, t).err = "" /\ StoredTaskAt(fs', l, t).err = "") =>
              StoredTaskAt(fs', l, t).val[1].updated_at
                  >= StoredTaskAt(fs, l, t).val[1].updated_at

\* C15: every successful CreateList, UpdateList, CreateTask, UpdateTask
\* and MoveTask stores its record with updated_at equal to the clock value
\* the operation read; a create stores created_at with the same value; the
\* updated_at of a stored record never decreases from one step to the next.
C15_UpdatedAtRefreshed == [][UpdatedAtIsWriteTime /\ UpdatedAtNeverDecreases]_vars

\* A task that was created and then moved is stored in the destination
\* with an updated_at greater than its created_at.
C15_MovedAfterCreate ==
    /\ Returned(1, "MoveTask") /\ ret[1].err = ""
    /\ call[1].list # call[1].dest
    /\ StoredTaskAt(fs, call[1].dest, call[1].task).err = ""
    /\ StoredTaskAt(fs, call[1].dest, call[1].task).val[1].created_at > InitClock
    /\ StoredTaskAt(fs, call[1].dest, call[1].task).val[1].updated_at
          > StoredTaskAt(fs, call[1].dest, call[1].task).val[1].created_at

----------------------------------------------------------------------------
(* C16  GetTask is a direct lookup.                                        *)

\* The named list's container holds no file for the task.
NotInContainer(f, l, t) == ~Exists(f, TaskPath(l, t))

\* C16: a GetTask(list_id, task_id) that has returned, in either variant
\* of the store, returned the record stored in the named list's container,
\* and NotFound when that container holds no record with task_id, also
\* when another list's container holds one.
C16_GetTaskIsDirectLookup ==
    \A p \in Procs :
        (Returned(p, "GetTask") \/ Returned(p, "GetTaskFallback")) =>
            /\ StoredTaskAt(fs, call[p].list, call[p].task).err = "" =>
                  /\ ret[p].err = ""
                  /\ ret[p].val = StoredTaskAt(fs, call[p].list, call[p].task).val
            /\ NotInContainer(fs, call[p].list, call[p].task) =>
                  ret[p].err = "NotFound"

----------------------------------------------------------------------------
(* C17  A task record is written only into an existing list.               *)

\* The container of list l (its directory) does not exist.
NoContainer(f, l) == StatNotExist(f, ListDir(l))

\* The step writes the task file of t in list l: it creates the file or
\* changes its content.
WritesTaskFile(l, t) ==
    /\ IsFile(fs', TaskPath(l, t))
    /\ ~IsFile(fs, TaskPath(l, t)) \/ fs'[TaskPath(l, t)] # fs[TaskPath(l, t)]

\* CreateTask and UpdateTask on a list without container return NotFound
\* and leave the tree as it was; when they succeed the container existed
\* and the record is stored in it; no step of any operation, MoveTask's
\* write included, writes a task file into a list whose container did not
\* exist when the step began.
WritesOnlyIntoExistingList ==
    /\ \A p \in Procs : \A op \in {"CreateTask", "UpdateTask"} :
          (pc[p] = "work" /\ call[p].op = op /\ pc'[p] = "idle") =>
              /\ NoContainer(fs, call[p].rec.list_id) =>
                    ret'[p].err = "NotFound" /\ fs' = fs
              /\ ret'[p].err = "" =>
                    /\ ~NoContainer(fs, call[p].rec.list_id)
                    /\ WritesTaskFile(call[p].rec.list_id, call[p].rec.id)
    /\ \A p \in Procs :
          (pc[p] = "mv_write" /\ pc'[p] = "mv_remove") =>
              /\ ~NoContainer(fs, call[p].dest)
              /\ StoredTaskAt(fs', call[p].dest, call[p].task).err = ""
              /\ StoredTaskAt(fs', call[p].dest, call[p].task).val[1].list_id = call[p].dest
    /\ \A l \in ListIDs, t \in TaskIDs :
          WritesTaskFile(l, t) => ~NoContainer(fs, l)

\* C17: CreateTask and UpdateTask called with a record whose list_id names
\* a list without container fail NotFound, write no task record and create
\* no container; every task file that CreateTask, UpdateTask or MoveTask
\* writes is written into a list whose container exists at that moment.
C17_TaskWrittenIntoExistingList == [][WritesOnlyIntoExistingList]_vars

\* CreateTask has returned NotFound for a list that has no container.
C17_CreateTaskInMissingList ==
    /\ Returned(1, "CreateTask") /\ ret[1].err = "NotFound"
    /\ NoContainer(fs, call[1].rec.list_id)
    /\ TaskFiles(fs) = {}

----------------------------------------------------------------------------
(* C18  CreateList on an existing container.                               *)

\* A CreateList that returns in this step succeeds; GetList then finds
\* the list; if the list's container existed, GetTasksForList returns
\* what it returned before the call and no task file of any list changed;
\* if it did not exist, GetTasksForList succeeds with no task.
CreateListKeepsTasks ==
    \A p \in Procs :
        (pc[p] = "work" /\ call[p].op = "CreateList" /\ pc'[p] = "idle") =>
            /\ ret'[p].err = ""
            /\ StoredList(fs', call[p].list).err = ""
            /\ getTasksForList(fs', call[p].list).err = ""
            /\ ~NoContainer(fs, call[p].list) =>
                  /\ TaskRecords(fs') = TaskRecords(fs)
                  /\ getTasksForList(fs, call[p].list).err = "" =>
                        getTasksForList(fs', call[p].list).val
                            = getTasksForList(fs, call[p].list).val
            /\ NoContainer(fs, call[p].list) =>
                  getTasksForList(fs', call[p].list).val = <<>>

\* C18: CreateList for an identifier whose container exists succeeds, and
\* afterwards GetList succeeds and GetTasksForList returns exactly the
\* tasks the list held before; for a new identifier GetTasksForList
\* afterwards succeeds with an empty result.
C18_CreateListIdempotentOnContainer == [][CreateListKeepsTasks]_vars

\* CreateList has returned for a list that holds a task.
C18_CreateListOverTasks ==
    /\ Returned(1, "CreateList") /\ ret[1].err = ""
    /\ getTasksForList(fs, call[1].list).err = ""
    /\ getTasksForList(fs, call[1].list).val # <<>>

----------------------------------------------------------------------------
(* C19  Corrupt entries in a tasks directory.                              *)

\* The entries a tasks directory can hold under one name besides a record
\* the store wrote: the rest of a write that failed half way, a file that
\* cannot be read, a directory.
EntryNames == {"t1", "t2", "t3"}
StoredRecord(l, t) == FileNode(MarshalTask(TaskB(l, t)))
Entries(l, t) ==
    {StoredRecord(l, t), FileNode(Garbage), Unreadable(MarshalTask(TaskA(l, t))), DirNode}

\* The tree with lists A and B, and in A's tasks directory the entries e
\* (a function from some of the names to what is stored under them).
TreeWith(e) ==
    [q \in DOMAIN EarlierTree \cup {TaskPath("A", t) : t \in DOMAIN e} |->
        IF q \in DOMAIN EarlierTree THEN EarlierTree[q]
        ELSE e[CHOOSE t \in DOMAIN e : TaskPath("A", t) = q]]

CorruptTrees ==
    UNION {{TreeWith(e) : e \in {g \in [names -> UNION {Entries("A", t) : t \in names}] :
                                    \A t \in names : g[t] \in Entries("A", t)}}
           : names \in SUBSET EntryNames}

\* The store is opened on a tree whose list A holds any mix of record
\* files and other entries, and GetTasksForList is called on it.
ScanInit ==
    /\ fs \in CorruptTrees
    /\ clock = InitClock
    /\ wOwner = NoProc
    /\ rheld = [p \in Procs |-> 0]
    /\ pc = [p \in Procs |-> "idle"]
    /\ call = [p \in Procs |-> NoCall]
    /\ loc = [p \in Procs |-> NoRec]
    /\ ret = [p \in Procs |-> NoResult]
    /\ pre = [p \in Procs |-> fs]
    /\ deleted = {}
    /\ handler = [p \in Procs |-> NoHandler]

ScanNext ==
    \/ \E l \in ListIDs : Invoke(1, Call("GetTasksForList", l, "", "", NoRec))
    \/ GetTasksForList(1)

ScanSpec == ScanInit /\ [][ScanNext]_vars

\* The entry at path is a record file that can be read and decoded.
IsValidRecord(f, path) ==
    /\ IsRecordFile(f, path)
    /\ "noperm" \notin DOMAIN f[path]
    /\ HasJsonExt(path[Len(path)])

\* The records of the valid record files of list l, and the other entries
\* of its tasks directory.
ValidRecords(f, l) ==
    {UnmarshalTask(f[path].data).v :
        path \in {q \in DOMAIN f : Len(q) = 4 /\ IsUnder(q, TasksDir(l)) /\ IsValidRecord(f, q)}}
CorruptEntries(f, l) ==
    {q \in DOMAIN f : Len(q) = 4 /\ IsUnder(q, TasksDir(l)) /\ ~IsValidRecord(f, q)}

\* C19: a GetTasksForList on a list whose tasks directory exists succeeds
\* and returns exactly the records of the valid record files, each once,
\* however many entries of the directory cannot be read or decoded.
C19_CorruptEntriesAreSkipped ==
    \A p \in Procs :
        (Returned(p, "GetTasksForList") /\ ~StatNotExist(fs, TasksDir(call[p].list))) =>
            /\ ret[p].err = ""
            /\ {ret[p].val[i] : i \in 1..Len(ret[p].val)} = ValidRecords(fs, call[p].list)
            /\ Len(ret[p].val) = Cardinality(ValidRecords(fs, call[p].list))

\* GetTasksForList has returned for a list that holds two entries it
\* cannot use and a valid record.
C19_ScannedCorruptList ==
    /\ Returned(1, "GetTasksForList")
    /\ Cardinality(CorruptEntries(fs, call[1].list)) >= 2
    /\ ValidRecords(fs, call[1].list) # {}

----------------------------------------------------------------------------
(* C20  GetTasksForList: a missing list and an empty list.                 *)

\* The tasks directory of list l exists and has no entry.
EmptyContainer(f, l) ==
    /\ IsDir(f, TasksDir(l))
    /\ ~(\E q \in DOMAIN f : q # TasksDir(l) /\ IsUnder(q, TasksDir(l)))

\* C20: a GetTasksForList that has returned failed with NotFound, and
\* returned no task, if the list's tasks directory does not exist, and
\* succeeded with an empty result if the directory exists and is empty.
C20_MissingListIsNotEmptyList ==
    \A p \in Procs :
        Returned(p, "GetTasksForList") =>
            /\ ~Exists(fs, TasksDir(call[p].list)) =>
                  ret[p].err = "NotFound" /\ ret[p].val = <<>>
            /\ EmptyContainer(fs, call[p].list) =>
                  ret[p].err = "" /\ ret[p].val = <<>>

\* GetTasksForList has returned NotFound for a list that was deleted,
\* while the other list exists and is empty.
C20_ScannedDeletedList ==
    /\ Returned(1, "GetTasksForList") /\ ret[1].err = "NotFound"
    /\ call[1].list \in deleted
    /\ \E l \in ListIDs : EmptyContainer(fs, l)

----------------------------------------------------------------------------
(* C21, C22  GetAllTasks and GetAllLists on any tree.                      *)

\* What the lists directory can hold under the name of list l, as a set
\* of <<path, node>> pairs: nothing; a list as CreateList leaves it, with
\* no task, one, two, or one next to the rest of a failed write; a list
\* without tasks directory; a directory without metadata; metadata that
\* cannot be decoded or read; a file in the place of the directory.
ListNodes(l, meta) == {<<ListDir(l), DirNode>>, <<ListPath(l), meta>>}
TaskNodes(l, e) ==
    {<<TasksDir(l), DirNode>>} \cup {<<TaskPath(l, t), e[t]>> : t \in DOMAIN e}
StoredMeta(l) == FileNode(MarshalList(ListB(l)))
ListShapes(l) ==
    { {},
      ListNodes(l, StoredMeta(l)) \cup {<<TasksDir(l), DirNode>>},
      ListNodes(l, StoredMeta(l)) \cup TaskNodes(l, [t \in {"t1"} |-> StoredRecord(l, t)]),
      ListNodes(l, StoredMeta(l)) \cup TaskNodes(l, [t \in {"t1", "t2"} |-> StoredRecord(l, t)]),
      ListNodes(l, StoredMeta(l))
          \cup TaskNodes(l, [t \in {"t1", "t2"} |->
                                IF t = "t1" THEN FileNode(Garbage) ELSE StoredRecord(l, t)]),
      ListNodes(l, StoredMeta(l)),
      {<<ListDir(l), DirNode>>} \cup TaskNodes(l, [t \in {"t1"} |-> StoredRecord(l, t)]),
      ListNodes(l, FileNode(Garbage)) \cup TaskNodes(l, [t \in {"t1"} |-> StoredRecord(l, t)]),
      ListNodes(l, Unreadable(MarshalList(ListB(l))))
          \cup TaskNodes(l, [t \in {"t1"} |-> StoredRecord(l, t)]),
      {<<ListDir(l), StoredMeta(l)>>} }

\* The tree that holds the base directory, the lists directory and the
\* given nodes.
TreeOf(nodes) ==
    [q \in DOMAIN EmptyTree \cup {n[1] : n \in nodes} |->
        IF q \in DOMAIN EmptyTree THEN EmptyTree[q]
        ELSE (CHOOSE n \in nodes : n[1] = q)[2]]

AnyTrees == {TreeOf(a \cup b) : a \in ListShapes("A"), b \in ListShapes("B")}

\* The store is opened on any of these trees; GetAllLists and GetAllTasks
\* are called on it.
ScanAllInit ==
    /\ fs \in AnyTrees
    /\ clock = InitClock
    /\ wOwner = NoProc
    /\ rheld = [p \in Procs |-> 0]
    /\ pc = [p \in Procs |-> "idle"]
    /\ call = [p \in Procs |-> NoCall]
    /\ loc = [p \in Procs |-> NoRec]
    /\ ret = [p \in Procs |-> NoResult]
    /\ pre = [p \in Procs |-> fs]
    /\ deleted = {}
    /\ handler = [p \in Procs |-> NoHandler]

ScanAllNext ==
    \/ \E op \in {"GetAllLists", "GetAllTasks"} : Invoke(1, Call(op, "", "", "", NoRec))
    \/ GetAllLists(1)
    \/ GetAllTasks(1)
    \/ GetAllTasksScan(1)

ScanAllSpec == ScanAllInit /\ [][ScanAllNext]_vars

\* The elements of a sequence.
Range(s) == {s[i] : i \in 1..Len(s)}

\* The lists GetAllLists returns on f whose task scan succeeds, and the
\* tasks these scans return.
ScannableLists(f) ==
    {l \in Range(DoGetAllLists(f).val) : getTasksForList(f, l.id).err = ""}
UnionOfScans(f) ==
    UNION {Range(getTasksForList(f, l.id).val) : l \in ScannableLists(f)}

\* C21: a GetAllTasks that has returned succeeded, and returned exactly
\* the tasks that GetTasksForList returns for the lists GetAllLists
\* returns, each once; a list whose scan fails adds nothing; every task
\* stored in a list that GetList returns is in the result.
C21_GetAllTasksIsUnionOfScans ==
    \A p \in Procs :
        (Returned(p, "GetAllTasks") /\ DoGetAllLists(fs).err = "") =>
            /\ ret[p].err = ""
            /\ Range(ret[p].val) = UnionOfScans(fs)
            /\ Len(ret[p].val) = Cardinality(UnionOfScans(fs))
            /\ \A l \in ListIDs, t \in TaskIDs :
                  (StoredList(fs, l).err = "" /\ StoredTaskAt(fs, l, t).err = "") =>
                      StoredTaskAt(fs, l, t).val[1] \in Range(ret[p].val)

\* GetAllTasks has returned tasks from a tree in which GetAllLists
\* returns a list whose task scan fails.
C21_ScannedPastFailingList ==
    /\ Returned(1, "GetAllTasks") /\ ret[1].err = ""
    /\ ret[1].val # <<>>
    /\ \E l \in Range(DoGetAllLists(fs).val) : getTasksForList(fs, l.id).err # ""

\* The list records of the directories under the lists directory whose
\* list.json can be read and decoded.
HasMetadata(f, l) ==
    /\ IsDir(f, ListDir(l))
    /\ IsFile(f, ListPath(l))
    /\ "noperm" \notin DOMAIN f[ListPath(l)]
    /\ IsObject(f[ListPath(l)].data)
ListsWithMetadata(f) ==
    {UnmarshalList(f[ListPath(l)].data).v : l \in {k \in ListIDs : HasMetadata(f, k)}}

\* C22: a GetAllLists that has returned succeeded and returned exactly
\* the records of the directories whose metadata can be read and decoded,
\* each once; a directory without metadata or with metadata that cannot be
\* read or decoded, and an entry that is no directory, are left out.
C22_GetAllListsSkipsBadEntries ==
    \A p \in Procs :
        (Returned(p, "GetAllLists") /\ IsDir(fs, ListsDir)) =>
            /\ ret[p].err = ""
            /\ Range(ret[p].val) = ListsWithMetadata(fs)
            /\ Len(ret[p].val) = Cardinality(ListsWithMetadata(fs))

\* GetAllLists has returned a list from a tree that holds an entry
\* without usable metadata.
C22_ListedPastBadEntry ==
    /\ Returned(1, "GetAllLists") /\ ret[1].val # <<>>
    /\ \E l \in ListIDs : Exists(fs, ListDir(l)) /\ ~HasMetadata(fs, l)

----------------------------------------------------------------------------
(* C23, C24  What the transport layer lets into the store.                 *)

\* C23: in every state reached by create-task and update-task requests,
\* every stored task has a non-empty title.
C23_StoredTitleNonEmpty ==
    \A l \in ListIDs, t \in TaskIDs :
        StoredTaskAt(fs, l, t).err = "" => StoredTaskAt(fs, l, t).val[1].title # ""

\* The values of models.TaskState.
TaskStates == {"todo", "in_progress", "blocked", "done"}

\* C24: in every state reached by create-task and update-task requests,
\* the state of every stored task is one of todo, in_progress, blocked
\* and done.
C24_StoredStateValid ==
    \A l \in ListIDs, t \in TaskIDs :
        StoredTaskAt(fs, l, t).err = "" => StoredTaskAt(fs, l, t).val[1].state \in TaskStates

----------------------------------------------------------------------------
(* C25  Identifiers that are not names.                                    *)

\* Identifiers that filepath.Join does not keep as one path component:
\* the empty string and the traversal sequences.
UnsafeIDs == {"", ".."}
AnyIDs == ListIDs \cup UnsafeIDs

\* The store's operations called with any of these identifiers.
UnsafeCalls ==
    {Call("GetList", l, "", "", NoRec) : l \in AnyIDs}
    \cup {Call("GetTasksForList", l, "", "", NoRec) : l \in AnyIDs}
    \cup {Call("CreateList", l, "", "", ListA(l)) : l \in AnyIDs}
    \cup {Call("DeleteList", l, "", "", NoRec) : l \in AnyIDs}
    \cup {Call("CreateTask", l, "t1", "", TaskA(l, "t1")) : l \in AnyIDs}

UnsafeNext ==
    \/ \E c \in UnsafeCalls : Invoke(1, c)
    \/ GetList(1)
    \/ GetTasksForList(1)
    \/ CreateList(1)
    \/ DeleteList(1)
    \/ CreateTask(1)

UnsafeSpec == Init /\ [][UnsafeNext]_vars

\* The paths of the tree that are not in or under <base>/lists/<id>.
Outside(f, id) == {q \in DOMAIN f : ~IsUnder(q, <<"lists", id>>)}

\* An operation that was called with an unsafe identifier returns without
\* a change of the tree and, if it is a read, with an error; a DeleteList
\* leaves every path outside the directory of the list it names.
UnsafeIDsRejected ==
    \A p \in Procs :
        (pc[p] = "work" /\ pc'[p] = "idle") =>
            /\ call[p].list \in UnsafeIDs =>
                  /\ fs' = fs
                  /\ call[p].op \in ReadOps => ret'[p].err # ""
            /\ call[p].op = "DeleteList" =>
                  \A q \in Outside(fs, call[p].list) : q \in DOMAIN fs' /\ fs'[q] = fs[q]

\* C25: no operation called with a list identifier that is empty or a
\* traversal sequence reads, writes or removes anything, and DeleteList(id)
\* removes nothing outside <base>/lists/<id>/.
C25_UnsafeIdentifiersTouchNothing == [][UnsafeIDsRejected]_vars

----------------------------------------------------------------------------
(* C26  CreateTask on an identifier that is stored.                        *)

\* The records with identifier t in what GetTasksForList returns for l.
RecordsWithID(f, l, t) ==
    {i \in 1..Len(getTasksForList(f, l).val) : getTasksForList(f, l).val[i].id = t}

\* A CreateTask for an identifier that the list holds succeeds; the list
\* then holds one record with that identifier, the new one, and as many
\* tasks as before.
CreateTaskOverwrites ==
    \A p \in Procs :
        (/\ pc[p] = "work" /\ call[p].op = "CreateTask" /\ pc'[p] = "idle"
         /\ StoredTaskAt(fs, call[p].list, call[p].task).err = "") =>
            /\ ret'[p].err = ""
            /\ StoredTaskAt(fs', call[p].list, call[p].task).err = ""
            /\ CallerFields(StoredTaskAt(fs', call[p].list, call[p].task).val[1])
                  = CallerFields(call[p].rec)
            /\ StoredTaskAt(fs', call[p].list, call[p].task).val[1].created_at = clock'
            /\ Cardinality(RecordsWithID(fs', call[p].list, call[p].task)) = 1
            /\ Len(getTasksForList(fs', call[p].list).val)
                  = Len(getTasksForList(fs, call[p].list).val)

\* C26: CreateTask with an identifier that is stored in the same list
\* succeeds; afterwards the list holds exactly one record with that
\* identifier, with the fields of the new record, and the number of tasks
\* of the list is unchanged.
C26_CreateTaskOverwrites == [][CreateTaskOverwrites]_vars

\* CreateTask has returned for an identifier under which the list held a
\* record with another title.
C26_CreatedOverOtherRecord ==
    /\ Returned(1, "CreateTask") /\ ret[1].err = ""
    /\ StoredTaskAt(pre[1], call[1].list, call[1].task).err = ""
    /\ StoredTaskAt(pre[1], call[1].list, call[1].task).val[1].title # call[1].rec.title
    /\ StoredTaskAt(fs, call[1].list, call[1].task).val[1].title = call[1].rec.title

----------------------------------------------------------------------------
(* C27  UpdateTask writes one file.                                        *)

\* Every path but path is in both trees or in none, with the same content.
SameExceptAt(f, g, path) ==
    /\ DOMAIN f \ {path} = DOMAIN g \ {path}
    /\ \A q \in DOMAIN f \ {path} : f[q] = g[q]

\* An UpdateTask on an existing list succeeds and stores the given record,
\* with updated_at set, at the path of the record's list_id and id,
\* whether a record was there or not; nothing else changes.
UpdateTaskWritesOneFile ==
    \A p \in Procs :
        (/\ pc[p] = "work" /\ call[p].op = "UpdateTask" /\ pc'[p] = "idle"
         /\ ~NoContainer(fs, call[p].rec.list_id)) =>
            /\ ret'[p].err = ""
            /\ StoredTaskAt(fs', call[p].rec.list_id, call[p].rec.id).err = ""
            /\ StoredTaskAt(fs', call[p].rec.list_id, call[p].rec.id).val[1]
                  = [call[p].rec EXCEPT !.updated_at = clock']
            /\ SameExceptAt(fs, fs', TaskPath(call[p].rec.list_id, call[p].rec.id))

\* C27: UpdateTask writes the record at the path resolved from the
\* record's list_id and id, creating it if the list does not hold the
\* identifier, and changes nothing else: a record with the same identifier
\* in another list stays as it is.
C27_UpdateTaskWritesOwnPathOnly == [][UpdateTaskWritesOneFile]_vars

\* UpdateTask has created a record in a list while the other list holds
\* a record with the same identifier.
C27_UpdatedIntoOtherList ==
    /\ Returned(1, "UpdateTask") /\ ret[1].err = ""
    /\ StoredTaskAt(pre[1], call[1].list, call[1].task).err = "NotFound"
    /\ StoredTaskAt(fs, call[1].list, call[1].task).err = ""
    /\ \E l \in ListIDs \ {call[1].list} :
          /\ StoredTaskAt(fs, l, call[1].task).err = ""
          /\ StoredTaskAt(fs, l, call[1].task).val = StoredTaskAt(pre[1], l, call[1].task).val

----------------------------------------------------------------------------
(* C28  The response of an update request and the stored record.           *)

\* The fields of a task that the claim compares.
ComparedFields(task) ==
    [k \in {"title", "description", "state", "state_time", "due_date", "list_id"} |-> task[k]]

\* C28: after a successful update request on an existing task, the record
\* stored for the task has the title, description, state, state_time,
\* due_date and list_id of the task in the response, also when the
\* request changed list_id together with other fields.
C28_ResponseEqualsStored ==
    \A p \in Procs :
        UpdatedExisting(p) =>
            /\ StoredTask(p).err = ""
            /\ ComparedFields(StoredTask(p).val[1]) = ComparedFields(handler[p].task)

----------------------------------------------------------------------------
(* C29  MoveTask within one list.                                          *)

\* C29: after a MoveTask whose source and destination are the same list
\* has returned with success, GetTask finds the task in that list and
\* returns the record MoveTask returned.
C29_MoveWithinListKeepsTask ==
    \A p \in Procs :
        (Returned(p, "MoveTask") /\ call[p].list = call[p].dest /\ ret[p].err = "") =>
            /\ StoredTaskAt(fs, call[p].list, call[p].task).err = ""
            /\ StoredTaskAt(fs, call[p].list, call[p].task).val = ret[p].val

----------------------------------------------------------------------------
(* C30  MoveTask and the number of task records.                           *)

\* The trees with lists A and B in which each list holds any of the tasks
\* t1 and t2 (the records of A and of B differ in every caller field).
RecordIn(l, t) == FileNode(MarshalTask(IF l = "A" THEN TaskA(l, t) ELSE TaskB(l, t)))
HoldingTasks(l, ts) ==
    ListNodes(l, StoredMeta(l)) \cup TaskNodes(l, [t \in ts |-> RecordIn(l, t)])
MoveTrees ==
    {TreeOf(HoldingTasks("A", a) \cup HoldingTasks("B", b)) :
        a \in SUBSET TaskIDs, b \in SUBSET TaskIDs}

MoveInit ==
    /\ fs \in MoveTrees
    /\ clock = InitClock
    /\ wOwner = NoProc
    /\ rheld = [p \in Procs |-> 0]
    /\ pc = [p \in Procs |-> "idle"]
    /\ call = [p \in Procs |-> NoCall]
    /\ loc = [p \in Procs |-> NoRec]
    /\ ret = [p \in Procs |-> NoResult]
    /\ pre = [p \in Procs |-> fs]
    /\ deleted = {}
    /\ handler = [p \in Procs |-> NoHandler]

MoveNext ==
    \/ \E l \in ListIDs, t \in TaskIDs, d \in ListIDs :
          Invoke(1, Call("MoveTask", l, t, d, NoRec))
    \/ MoveTask(1)
    \/ MoveTaskWrite(1)
    \/ MoveTaskRemove(1)

MoveSpec == MoveInit /\ [][MoveNext]_vars

\* The task records of list l other than that of task t.
OtherRecords(f, l, t) ==
    [path \in {q \in TaskFiles(f) : q[2] = l /\ q # TaskPath(l, t)} |-> f[path]]

\* C30: after a MoveTask between two lists has returned with success, the
\* lists together hold as many task records as when it was called, and
\* the records of the destination other than the moved one are unchanged.
C30_MoveConservesTasks ==
    \A p \in Procs :
        (Returned(p, "MoveTask") /\ call[p].list # call[p].dest /\ ret[p].err = "") =>
            /\ Cardinality(TaskFiles(fs)) = Cardinality(TaskFiles(pre[p]))
            /\ OtherRecords(fs, call[p].dest, call[p].task)
                  = OtherRecords(pre[p], call[p].dest, call[p].task)

----------------------------------------------------------------------------
(* C31  Operations that return an error.                                   *)

\* Caller p's operation has returned an error that the file system did
\* not cause: NotFound or a decode error (under Spec the file system
\* calls fail only where MoveTask's write and delete are made to fail,
\* and those return an I/O error).
FailedByItself(p) ==
    /\ pc[p] = "idle"
    /\ call[p].op # ""
    /\ ret[p].err \in {"NotFound", "DecodeError"}

\* C31: when an operation has returned an error without a failure of the
\* file system, the tree is the one the operation was called on: the same
\* list directories, tasks directories, metadata files and task files; so
\* MoveTask from a list that does not exist creates no directory for it.
C31_FailedOperationChangesNothing ==
    \A p \in Procs : FailedByItself(p) => fs = pre[p]

----------------------------------------------------------------------------
(* C32  List directories and their metadata files.                         *)

\* GetList(l) would succeed on the tree f.
ListKnown(f, l) == DoGetList(f, l).err = ""

\* UpdateList, DeleteList and CreateTask for list l would not fail
\* NotFound on the tree f.
ListAccepted(f, l) ==
    /\ DoUpdateList(f, ListA(l), clock + 1).err # "NotFound"
    /\ DoDeleteList(f, l).err # "NotFound"
    /\ DoCreateTask(f, TaskA(l, "t1"), clock + 1).err # "NotFound"

\* The identifiers of the lists GetAllLists would return on the tree f.
ListedIDs(f) == {DoGetAllLists(f).val[i].id : i \in 1..Len(DoGetAllLists(f).val)}

\* C32: in every reachable state a list's directory exists exactly when
\* its metadata file does: GetList succeeds for a list exactly when
\* UpdateList, DeleteList and CreateTask for it do not fail NotFound, and
\* every list that holds a task file is among those GetAllLists returns.
C32_ContainerIffMetadata ==
    \A l \in ListIDs :
        /\ Exists(fs, ListDir(l)) <=> Exists(fs, ListPath(l))
        /\ ListKnown(fs, l) <=> ListAccepted(fs, l)
        /\ (\E path \in TaskFiles(fs) : path[2] = l) => l \in ListedIDs(fs)

----------------------------------------------------------------------------
(* C33  Records and the paths they are stored at.                          *)

\* The metadata files of every list.
ListFiles(f) ==
    {path \in DOMAIN f : /\ Len(path) = 3
                         /\ path[1] = "lists"
                         /\ path[3] = "list.json"
                         /\ IsFile(f, path)}

\* The task record in the file at path names the list and the task of
\* the path.
TaskRecordMatchesPath(f, path) ==
    LET u == UnmarshalTask(f[path].data)
    IN  u.ok => /\ u.v.list_id = path[2]
                /\ u.v.id \o ".json" = path[4]

\* The metadata record in the file at path names the list of the path.
ListRecordMatchesPath(f, path) ==
    LET u == UnmarshalList(f[path].data)
    IN  u.ok => u.v.id = path[2]

\* C33: in every reachable state each task record stored at
\* lists/L/tasks/T.json has list_id L and id T, and each metadata record
\* stored at lists/L/list.json has id L.
C33_RecordsMatchTheirPaths ==
    /\ \A path \in TaskFiles(fs) : TaskRecordMatchesPath(fs, path)
    /\ \A path \in ListFiles(fs) : ListRecordMatchesPath(fs, path)

\* A task created in one list has been moved to another list, and the
\* record stored there names the destination.
C33_MovedRecordNamesDestination ==
    /\ Returned(1, "MoveTask")
    /\ ret[1].err = ""
    /\ call[1].list # call[1].dest
    /\ StoredTaskAt(fs, call[1].dest, call[1].task).err = ""
    /\ StoredTaskAt(pre[1], call[1].list, call[1].task).val[1].list_id = call[1].list
    /\ StoredTaskAt(fs, call[1].dest, call[1].task).val[1].list_id = call[1].dest

----------------------------------------------------------------------------
(* C34  Concurrent update requests for one task. The service runs each     *)
(* request's handler in its own goroutine; handler p receives update       *)
(* requests for task t1 of list A that change one field, a different one   *)
(* for each handler. The store is opened on a tree that holds the task.    *)

\* The form body of handler p's requests: the field it changes.
UpdaterBody(p) ==
    IF p = 1 THEN [title |-> "z"]
    ELSE IF p = 2 THEN [state |-> "done"]
    ELSE [description |-> "e"]
UpdaterRequest(p) == Request("update", "A", "t1", Form(UpdaterBody(p)))

UpdatersInit ==
    /\ fs = TreeOf(HoldingTasks("A", {"t1"}) \cup HoldingTasks("B", {}))
    /\ clock = InitClock
    /\ wOwner = NoProc
    /\ rheld = [p \in Procs |-> 0]
    /\ pc = [p \in Procs |-> "idle"]
    /\ call = [p \in Procs |-> NoCall]
    /\ loc = [p \in Procs |-> NoRec]
    /\ ret = [p \in Procs |-> NoResult]
    /\ pre = [p \in Procs |-> fs]
    /\ deleted = {}
    /\ handler = [p \in Procs |-> NoHandler]

UpdatersNext ==
    \E p \in Procs :
        \/ HandleUpdateTask(p, UpdaterRequest(p))
        \/ HandleUpdateTaskWrite(p)
        \/ Respond(p)
        \/ GetTask(p)
        \/ UpdateTask(p)

UpdatersSpec == UpdatersInit /\ [][UpdatersNext]_vars

\* Every handler has answered its request with success.
AllUpdated == \A p \in Procs : UpdatedExisting(p)

\* The stored record of the task carries the change of handler p's request.
CarriesChange(f, p) ==
    \A k \in DOMAIN UpdaterBody(p) :
        StoredTaskAt(f, "A", "t1").val[1][k] = UpdaterBody(p)[k]

\* C34: when concurrent update requests for the same task, each changing
\* another field, have all completed with success, the stored record
\* carries the change of every one of them, however the handlers' GetTask
\* and UpdateTask calls interleave.
C34_NoLostUpdate ==
    AllUpdated =>
        /\ StoredTaskAt(fs, "A", "t1").err = ""
        /\ \A p \in Procs : CarriesChange(fs, p)

----------------------------------------------------------------------------
(* C35  The lock after an operation has returned.                          *)

\* Caller p holds the lock, shared or exclusive.
HoldsLock(p) == wOwner = p \/ rheld[p] > 0

\* C35: a caller that is not inside an operation holds no lock, whatever
\* its last operation returned; so whenever no operation is in progress
\* the lock is held by nobody, neither shared nor exclusive.
C35_LockReleasedOnReturn ==
    /\ \A p \in Procs : ~InCall(p) => ~HoldsLock(p)
    /\ (\A p \in Procs : ~InCall(p)) => (wOwner = NoProc /\ Readers = 0)

\* No operation is in progress, one caller's MoveTask has returned an I/O
\* error after its write and another caller's operation has returned
\* NotFound.
C35_IdleAfterFailures ==
    /\ \A p \in Procs : ~InCall(p)
    /\ \E p \in Procs : Returned(p, "MoveTask") /\ ret[p].err = "IOError"
    /\ \E p \in Procs : call[p].op # "" /\ ret[p].err = "NotFound"

----------------------------------------------------------------------------
(* C36  DeleteList and the other lists.                                    *)

\* The tree f without the directory of list id and what is beneath it.
RestOf(f, id) == [q \in Outside(f, id) |-> f[q]]

\* C36: after a successful DeleteList(id) the directory of the list and
\* everything beneath it are gone and the rest of the tree, every other
\* list's metadata file and task files, is as it was when DeleteList was
\* called; DeleteList of a list whose directory does not exist fails
\* NotFound and leaves the tree as it was.
C36_DeleteListTouchesOneList ==
    \A p \in Procs :
        Returned(p, "DeleteList") =>
            /\ ret[p].err = "" =>
                  /\ RestOf(fs, call[p].list) = RestOf(pre[p], call[p].list)
                  /\ Outside(fs, call[p].list) = DOMAIN fs
            /\ ~Exists(pre[p], ListDir(call[p].list)) =>
                  /\ ret[p].err = "NotFound"
                  /\ fs = pre[p]

\* A list that held a task has been deleted while another list holds its
\* metadata file and a task file.
C36_DeletedBesideOtherList ==
    /\ Returned(1, "DeleteList")
    /\ ret[1].err = ""
    /\ \E path \in TaskFiles(pre[1]) : path[2] = call[1].list
    /\ \E l \in ListIDs \ {call[1].list} :
          /\ Exists(fs, ListPath(l))
          /\ \E path \in TaskFiles(fs) : path[2] = l

====
